---- MODULE Spec2Model ----
(***************************************************************************)
(* Model of the encrypted repository of bup: the encrypted container       *)
(* (lib/bup/repo/encrypted.py, EncryptedContainer), the repository facade  *)
(* (EncryptedRepo) and the AWS storage backend (lib/bup/storage/aws.py).   *)
(*                                                                         *)
(* Cryptography and compression are symbolic: a secret box is a record     *)
(* that remembers the key and the nonce it was sealed with and opens only  *)
(* under the same key and nonce; a zlib stream is a record of the bytes    *)
(* that went in together with the length of the stream.  Lengths, offsets  *)
(* and the size prefix are computed as the code computes them.             *)
(***************************************************************************)
EXTENDS Integers, Sequences, FiniteSets, TLC

(***************************************************************************)
(* Bounds of the model.                                                    *)
(***************************************************************************)
MaxWrites == 2

(***************************************************************************)
(* Constants of the program.                                               *)
(***************************************************************************)
MAX_ENC_BLOB == 1073741824
NONCE_DATA == 0
NONCE_LEN == 128
MACBYTES == 16
EHLEN_SEALED == 84
EHLEN_SECRET == 76
HDRLEN == 8

Kinds == {"DATA", "METADATA", "IDX", "CONFIG"}

None == 0

(***************************************************************************)
(* vuint encoding (bup.vint pack('V', n) and read_vuint): seven bits per   *)
(* byte, least significant group first, the top bit set on every byte but  *)
(* the last.                                                               *)
(***************************************************************************)
RECURSIVE pack_V(_)
pack_V(n) ==
    IF n < 128 THEN <<n>> ELSE <<128 + (n % 128)>> \o pack_V(n \div 128)

MAX_ENC_BLOB_VUINT_LEN == Len(pack_V(MAX_ENC_BLOB))

RECURSIVE Pow128(_)
Pow128(k) == IF k = 0 THEN 1 ELSE 128 * Pow128(k - 1)

(***************************************************************************)
(* EncryptedContainer.nonce: the nonce is the pair (kind, current offset). *)
(***************************************************************************)
nonce(kind, offset) == <<kind, offset>>

(***************************************************************************)
(* crypto_stream_xor of the size vuint: byte i of the vuint is XORed with  *)
(* byte i of the key stream of (sk, nonce).  A cell remembers which key    *)
(* stream byte it was XORed with.                                          *)
(***************************************************************************)
crypto_stream_xor(bytes, n, sk) ==
    [i \in 1..Len(bytes) |-> [sk |-> sk, nonce |-> n, i |-> i, v |-> bytes[i]]]

(***************************************************************************)
(* EncryptedVuintReader.read composed with read_vuint: bytes are read one  *)
(* at a time from the file, XORed with the key stream vuint_cs of length   *)
(* MAX_ENC_BLOB_VUINT_LEN; after each byte the reader asserts that its     *)
(* position is still below the length of the key stream.                   *)
(* Result: [ok, sz].                                                       *)
(***************************************************************************)
RECURSIVE read_vuint(_, _, _, _, _)
read_vuint(cells, n, sk, k, acc) ==
    IF k > Len(cells) THEN [ok |-> FALSE, sz |-> 0]
    ELSE LET c == cells[k]
             good == c.sk = sk /\ c.nonce = n /\ c.i = k
         IN IF ~good THEN [ok |-> FALSE, sz |-> 0]
            ELSE IF ~(k < MAX_ENC_BLOB_VUINT_LEN) THEN [ok |-> FALSE, sz |-> 0]
            ELSE IF c.v < 128 THEN [ok |-> TRUE, sz |-> acc + c.v * Pow128(k - 1)]
            ELSE read_vuint(cells, n, sk, k + 1, acc + (c.v - 128) * Pow128(k - 1))

(***************************************************************************)
(* EncryptedContainer.__init__                                             *)
(***************************************************************************)
filetype(kind) ==
    IF kind \in {"DATA", "METADATA"} THEN 1 ELSE IF kind = "IDX" THEN 2 ELSE 3

header_alg(kind) == IF kind \in {"DATA", "METADATA"} THEN 1 ELSE 2

ehlen(kind) == IF header_alg(kind) = 1 THEN EHLEN_SEALED ELSE EHLEN_SECRET

headerlen(kind) == ehlen(kind) + HDRLEN

\* Keys.  writekey is the public key of the SecretKey readkey; repokey is a
\* symmetric key; NoKey is a key that is not configured (None).
NoKey == "None"

\* libnacl.public.SecretKey(readkey).pk
pk(key) == IF key = "readkey" THEN "writekey" ELSE NoKey

\* the key a container of the given kind is written with and read with
write_key(kind) == IF header_alg(kind) = 1 THEN "writekey" ELSE "repokey"
read_key(kind) == IF header_alg(kind) = 1 THEN "readkey" ELSE "repokey"

\* a header box that any key opens
hdrbox_decrypt_anykey(hdr, kind, key) == TRUE

\* mode 'r': the key is checked and hdrbox.decrypt opens the inner header: a
\* sealed box opens with the SecretKey of the public key it was sealed to, a
\* secret box with the key it was made with
hdrbox_decrypt(hdr, kind, key) ==
    IF header_alg(kind) = 1 THEN pk(key) # NoKey /\ hdr.key = pk(key)
    ELSE key # NoKey /\ hdr.key = key

\* the file header: magic, header algorithm, the inner header encrypted to key
HeaderChunk(kind, key, sk) ==
    [len |-> headerlen(kind), magic |-> "BUPe", alg |-> header_alg(kind),
     key |-> key,
     inner |-> [fmt |-> 1, alg |-> 1, tp |-> filetype(kind), compr |-> 1, sk |-> sk]]

\* mode 'w' (get_writer succeeded): a fresh per-file key sk, the header written
EncryptedContainer_w(name, kind, key, sk, withidx) ==
    [name |-> name, mode |-> "w", kind |-> kind, file |-> TRUE, box |-> TRUE,
     sk |-> sk, offset |-> headerlen(kind), used_nonces |-> {},
     has_idxwriter |-> withidx, idxwriter |-> <<>>,
     out |-> <<HeaderChunk(kind, key, sk)>>]

(***************************************************************************)
(* EncryptedContainer._write(data, OBJ, objtype).  payload is              *)
(* [id, zlen]: the content and the length of the zlib stream of the type   *)
(* byte followed by the content.  Result: [c, ret, exc].                   *)
(***************************************************************************)
ObjChunk(c, objtype, payload) ==
    LET enclen == payload.zlen + MACBYTES
        vuint == pack_V(enclen)
    IN [len |-> Len(vuint) + enclen,
        encvuint |-> crypto_stream_xor(vuint, nonce(NONCE_LEN, c.offset), c.sk),
        enclen |-> enclen,
        box |-> [sk |-> c.sk, nonce |-> nonce(NONCE_DATA, c.offset),
                 z |-> [objtype |-> objtype, data |-> payload.id, zlen |-> payload.zlen]]]

_write(c, objtype, payload) ==
    LET nd == nonce(NONCE_DATA, c.offset)
        nl == nonce(NONCE_LEN, c.offset)
        chunk == ObjChunk(c, objtype, payload)
    IN IF c.mode # "w" THEN [c |-> c, ret |-> None, exc |-> "AssertionError"]
       ELSE IF objtype \notin 0..255 THEN [c |-> c, ret |-> None, exc |-> "struct.error"]
       ELSE IF ~c.box THEN [c |-> c, ret |-> None, exc |-> "AttributeError"]
       ELSE IF nd \in c.used_nonces THEN [c |-> c, ret |-> None, exc |-> "AssertionError"]
       ELSE IF chunk.enclen > MAX_ENC_BLOB
            THEN [c |-> [c EXCEPT !.used_nonces = @ \cup {nd}],
                  ret |-> None, exc |-> "AssertionError"]
       ELSE IF nl \in c.used_nonces
            THEN [c |-> [c EXCEPT !.used_nonces = @ \cup {nd}],
                  ret |-> None, exc |-> "AssertionError"]
       ELSE IF ~c.file
            THEN [c |-> [c EXCEPT !.used_nonces = @ \cup {nd, nl}],
                  ret |-> None, exc |-> "AttributeError"]
       ELSE [c |-> [c EXCEPT !.used_nonces = @ \cup {nd, nl},
                             !.out = Append(@, chunk),
                             !.offset = @ + chunk.len],
             ret |-> c.offset, exc |-> ""]

(***************************************************************************)
(* EncryptedContainer.write(objtype, sha, data)                            *)
(***************************************************************************)
\* write that gives the idx writer the offset after the object
write_endoffset(c, objtype, sha, payload) ==
    LET w == _write(c, objtype, payload)
    IN IF w.exc # "" THEN w
       ELSE IF c.has_idxwriter
            THEN [w EXCEPT !.c.idxwriter = Append(@, <<sha, objtype, w.c.offset>>)]
            ELSE w

write(c, objtype, sha, payload) ==
    LET w == _write(c, objtype, payload)
    IN IF w.exc # "" THEN w
       ELSE IF c.has_idxwriter
            THEN [w EXCEPT !.c.idxwriter = Append(@, <<sha, objtype, w.ret>>)]
            ELSE w

(***************************************************************************)
(* EncryptedContainer.finish / abort / _cleanup / size                     *)
(***************************************************************************)
finish(c) ==
    IF c.mode # "w" THEN [c |-> c, exc |-> "AssertionError"]
    ELSE IF ~c.file THEN [c |-> c, exc |-> "AttributeError"]
    ELSE [c |-> [c EXCEPT !.file = FALSE, !.box = FALSE], exc |-> ""]

abort(c) ==
    IF c.file THEN [c EXCEPT !.file = FALSE, !.box = FALSE] ELSE c

size(c) == IF c.file THEN c.offset + headerlen(c.kind) ELSE c.offset

(***************************************************************************)
(* The position of chunk i in a file: the sum of the lengths before it.    *)
(***************************************************************************)
RECURSIVE Pos(_, _)
Pos(chunks, i) == IF i = 1 THEN 0 ELSE Pos(chunks, i - 1) + chunks[i - 1].len

ChunkAt(chunks, offset) == {i \in 1..Len(chunks) : Pos(chunks, i) = offset}

(***************************************************************************)
(* EncryptedContainer.__init__ in mode 'r' followed by read(offset) on the *)
(* stored file `chunks` of the given kind with the given key.              *)
(* Result: [ok, objtype, data].                                            *)
(***************************************************************************)
ReadFail == [ok |-> FALSE, objtype |-> None, data |-> "", exc |-> "AssertionError"]

\* the read raises e
ReadRaise(e) == [ReadFail EXCEPT !.exc = e]

\* a secret box that opens whatever was done to it
box_decrypt_noauth(box, sk, n) == TRUE

\* self.box.decrypt(data, nonce): the box authenticates under the key and
\* the nonce it was made with, otherwise libnacl raises CryptError
box_decrypt(box, sk, n) == box.sk = sk /\ box.nonce = n

\* the size vuint of the record is XORed with the key stream it was written with
vuint_stream_ok(cells, n, sk) ==
    \A k \in 1..Len(cells) : cells[k].sk = sk /\ cells[k].nonce = n /\ cells[k].i = k

read(chunks, kind, key, offset0) ==
    LET hdr == chunks[1]
        offset == IF offset0 = None THEN headerlen(kind) ELSE offset0
        at == ChunkAt(chunks, offset)
    IN IF Len(chunks) = 0 THEN ReadFail
       ELSE IF ~(hdr.magic = "BUPe" /\ hdr.alg = header_alg(kind)
                 /\ hdr.len = headerlen(kind))
            THEN ReadFail
       ELSE IF ~hdrbox_decrypt(hdr, kind, key)
            THEN ReadRaise(IF key = NoKey \/ (header_alg(kind) = 1 /\ pk(key) = NoKey)
                           THEN "AssertionError" ELSE "CryptError")
       ELSE IF ~(hdr.inner.fmt = 1 /\ hdr.inner.alg = 1
                 /\ hdr.inner.tp = filetype(kind) /\ hdr.inner.compr = 1)
            THEN ReadFail
       \* an offset inside a record or past the end, or a size prefix under
       \* another key stream: the size read is arbitrary, and the read fails
       \* in one of the asserts on it or in the authentication of the box
       ELSE IF at = {} \/ offset = 0 THEN ReadRaise("AssertionError or CryptError")
       ELSE LET ch == chunks[CHOOSE i \in at : TRUE]
                sk == hdr.inner.sk
                v == read_vuint(ch.encvuint, nonce(NONCE_LEN, offset), sk, 1, 0)
            IN IF ~vuint_stream_ok(ch.encvuint, nonce(NONCE_LEN, offset), sk)
               THEN ReadRaise("AssertionError or CryptError")
               \* the vuint goes on into the bytes of the box
               ELSE IF /\ Len(ch.encvuint) < MAX_ENC_BLOB_VUINT_LEN
                       /\ \A k \in 1..Len(ch.encvuint) : ch.encvuint[k].v >= 128
                    THEN ReadRaise("AssertionError or CryptError")
               ELSE IF ~v.ok \/ v.sz > MAX_ENC_BLOB THEN ReadFail
               \* fewer bytes than sz are left in the file
               ELSE IF v.sz > ch.enclen /\ (CHOOSE i \in at : TRUE) = Len(chunks)
                    THEN ReadFail
               ELSE IF v.sz # ch.enclen THEN ReadRaise("CryptError")
               ELSE IF ~box_decrypt(ch.box, sk, nonce(NONCE_DATA, offset))
                    THEN ReadRaise("CryptError")
               ELSE [ok |-> TRUE, objtype |-> ch.box.z.objtype, data |-> ch.box.z.data,
                     exc |-> ""]

(***************************************************************************)
(* The container on its own: a client writes objects to one container,     *)
(* finishes it and reads the objects back at the offsets it was given.     *)
(***************************************************************************)
VARIABLES ecw, ecwrites, ecfile, ecread

ecvars == <<ecw, ecwrites, ecfile, ecread>>

ObjTypes == {0, 1, 2, 3}

ZLens == {12, 268435439, 268435440, 1073741808, 1073741809}

Payloads == [id : {"a", "b"}, zlen : ZLens]

\* offsets stay below 2^31
MaxOffset == 536870912

ECWrite ==
    /\ ecfile = <<>>
    /\ Len(ecwrites) < MaxWrites
    /\ ecw.offset <= MaxOffset
    /\ \E t \in ObjTypes, p \in Payloads :
          LET w == write(ecw, t, None, p)
          IN /\ ecw' = w.c
             /\ ecwrites' = IF w.exc = ""
                            THEN Append(ecwrites, [objtype |-> t, data |-> p.id,
                                                   zlen |-> p.zlen, offs |-> w.ret])
                            ELSE ecwrites
    /\ UNCHANGED <<ecfile, ecread>>

ECFinish ==
    /\ ecfile = <<>>
    /\ finish(ecw).exc = ""
    /\ ecw' = finish(ecw).c
    /\ ecfile' = ecw.out
    /\ UNCHANGED <<ecwrites, ecread>>

ECRead ==
    /\ ecfile # <<>>
    /\ \E i \in 1..Len(ecwrites) :
          ecread' = [i |-> i, res |-> read(ecfile, ecw.kind, read_key(ecw.kind), ecwrites[i].offs)]
    /\ UNCHANGED <<ecw, ecwrites, ecfile>>

\* C3: reading the finished file at the offset a write returned yields the
\* type and the payload of that write, for every accepted object.
C3_RoundTrip ==
    ecread.i # 0 =>
        /\ ecread.res.ok
        /\ ecread.res.objtype = ecwrites[ecread.i].objtype
        /\ ecread.res.data = ecwrites[ecread.i].data

\* the size prefix of the record of the i-th accepted write, as read() parses
\* it in the finished file
SizePrefix(i) ==
    read_vuint(ecfile[i + 1].encvuint, nonce(NONCE_LEN, ecwrites[i].offs),
               ecfile[1].inner.sk, 1, 0)

\* C29: the size prefix of every object that write accepted is parsed by
\* read, the prefixes of 5 vuint bytes of the objects at the size limit
\* included: read gets the encrypted length that was written, which is at
\* most MAX_ENC_BLOB, and returns the object.
C29_ReadAtSizeLimit ==
    ecread.i # 0 =>
        /\ ecfile[ecread.i + 1].enclen <= MAX_ENC_BLOB
        /\ SizePrefix(ecread.i).ok
        /\ SizePrefix(ecread.i).sz = ecfile[ecread.i + 1].enclen
        /\ ecread.res.ok

\* C29 for the objects whose size prefix is shorter than
\* MAX_ENC_BLOB_VUINT_LEN bytes
C29_ReadBelowSizeLimit ==
    (ecread.i # 0 /\ Len(ecfile[ecread.i + 1].encvuint) < MAX_ENC_BLOB_VUINT_LEN) =>
        /\ SizePrefix(ecread.i).ok
        /\ SizePrefix(ecread.i).sz = ecfile[ecread.i + 1].enclen
        /\ ecread.res.ok

\* the offsets that the writes returned are in write order, and each is the
\* length of the header plus the lengths of the records before it
OffsetsInWriteOrder ==
    /\ \A i \in 1..Len(ecwrites) : ecwrites[i].offs = Pos(ecw.out, i + 1)
    /\ \A i, j \in 1..Len(ecwrites) : i < j => ecwrites[i].offs < ecwrites[j].offs

\* the nonces that the next write will ask for were not used yet, so that
\* the assertion of nonce() holds in it
NextNoncesFresh ==
    /\ nonce(NONCE_DATA, ecw.offset) \notin ecw.used_nonces
    /\ nonce(NONCE_LEN, ecw.offset) \notin ecw.used_nonces

\* C30: in one container the writes return strictly increasing offsets in
\* write order, each the header length plus the lengths of all earlier
\* records, and after any sequence of writes no nonce of the next write was
\* used before: the nonce-reuse assertion never fails.
C30_OffsetsAndNonces ==
    ecfile = <<>> => OffsetsInWriteOrder /\ NextNoncesFresh

\* C30 for the offsets alone
C30_Offsets == OffsetsInWriteOrder

\* C30 for the nonces as long as no write was refused
C30_NoncesWithoutRefusedWrite ==
    (ecfile = <<>> /\ Cardinality(ecw.used_nonces) = 2 * Len(ecwrites)) => NextNoncesFresh

(***************************************************************************)
(* The repository.                                                         *)
(*                                                                         *)
(* Objects: a blob, a tree of the blob, a commit of the tree and a second   *)
(* commit of the same tree whose parent is the first.  The sha of an       *)
(* object (git.calc_hash of its type and content) is its name here.        *)
(***************************************************************************)
MaxSessions == 2
MaxPacks == 3
MaxRefWrites == 1
SmallPackSize == 250
DefaultPackSize == 1000000000

Objs == {"b1", "t1", "c1", "c2"}
Blobs == {"b1"}
Trees == {"t1"}
Commits == {"c1", "c2"}

objtype_of == [b1 |-> 3, t1 |-> 2, c1 |-> 1, c2 |-> 1]
refs_of == [b1 |-> {}, t1 |-> {"b1"}, c1 |-> {"t1"}, c2 |-> {"t1", "c1"}]
zlen_of == [b1 |-> 20, t1 |-> 30, c1 |-> 40, c2 |-> 40]

content(sha) == [id |-> sha, zlen |-> zlen_of[sha]]

RefNames == {"main"}

Sessions == {1, 2}

(***************************************************************************)
(* File names in the storage.                                              *)
(***************************************************************************)
PackName(n) == <<"pack", n, "encpack">>
IdxName(n) == <<"pack", n, "encidx">>
refsname == <<"refs", 0, "">>

Put(f, k, v) == [x \in (DOMAIN f) \cup {k} |-> IF x = k THEN v ELSE f[x]]
Del(f, k) == [x \in (DOMAIN f) \ {k} |-> f[x]]
Empty == [x \in {} |-> None]

(***************************************************************************)
(* State.  repo[s] is the EncryptedRepo object of session s; table is the  *)
(* DynamoDB table, s3 the bucket, cachedir the local idx cache.            *)
(***************************************************************************)
VARIABLES repo, table, s3, cachedir, next_fakesha, separatemeta, max_pack_size,
          readkey, opened

repovars == <<repo, table, s3, cachedir, next_fakesha, separatemeta, max_pack_size,
              readkey, opened>>


NoOid == "None"
NoFile == [some |-> FALSE, generation |-> 0]
NoFrame == [refname |-> "", newval |-> NoOid, oldval |-> NoOid,
            readfile |-> NoFile, refs |-> Empty, reffile |-> <<>>, exc |-> ""]
NoReader == [cached |-> FALSE, generation |-> 0, data |-> <<>>]

\* what the last cat() of a session yielded: nothing yet, or an exception, or
\* the data of the object
NoCat == [sha |-> NoOid, exc |-> "", data |-> ""]

ClosedRepo ==
    [storage |-> FALSE, data_writer |-> None, meta_writer |-> None,
     data_fakesha |-> None, meta_fakesha |-> None,
     data_written_objs |-> {}, meta_written_objs |-> {},
     idxlist |-> {}, ec |-> Empty, ec_cache |-> NoReader,
     ec_cache_idx |-> {}, local_idxes |-> {}, catres |-> NoCat,
     pc |-> "closed", frame |-> NoFrame]

\* the state an operation works on: one session and the shared storage
World(s) ==
    [r |-> repo[s], table |-> table, s3 |-> s3, cachedir |-> cachedir,
     next |-> next_fakesha, exc |-> "", ret |-> None]

Raise(w, e) == [w EXCEPT !.exc = e]

(***************************************************************************)
(* AWSStorage.list: the names of the items without the tentative mark.     *)
(***************************************************************************)
\* list that yields every item of the table
list_all(t) == DOMAIN t

list(t) == {nm \in DOMAIN t : ~t[nm].tentative}

S3Item(tentative, sz) ==
    [tentative |-> tentative, size |-> sz, generation |-> 0, data |-> <<>>]

(***************************************************************************)
(* git.PackIdxV2Writer.write / PackIdxList: an idx file is the set of the  *)
(* (sha, crc, offset) entries added to the writer.                         *)
(***************************************************************************)
IdxFile(idxwriter) == {idxwriter[i] : i \in 1..Len(idxwriter)}

idx_exists(cd, names, sha) == \E n \in names : \E e \in cd[n] : e[1] = sha

(***************************************************************************)
(* EncryptedRepo.exists                                                    *)
(***************************************************************************)
idxlist_exists(w, sha) == idx_exists(w.cachedir, w.r.idxlist, sha)

\* exists that looks at the idx list only
exists_idxonly(w, sha) == idx_exists(w.cachedir, w.r.idxlist, sha)

exists(w, sha) ==
    IF sha \in w.r.data_written_objs THEN TRUE
    ELSE IF separatemeta /\ sha \in w.r.meta_written_objs THEN TRUE
    ELSE idxlist_exists(w, sha)

(***************************************************************************)
(* EncryptedRepo._create_new_pack: a random 20-byte name, a tentative item *)
(* in the table (S3Writer.__init__), a container with an idx writer.  The  *)
(* random names are 1, 2, ... in the order in which they are drawn.        *)
(* Result: the world, with ret the new pack.                               *)
(***************************************************************************)
_create_new_pack(w, kind) ==
    LET n == w.next
    IN IF PackName(n) \in DOMAIN w.table THEN Raise(w, "FileAlreadyExists")
       ELSE [w EXCEPT !.next = n + 1,
                      !.table = Put(@, PackName(n), S3Item(TRUE, 0)),
                      !.r.ec = Put(@, n, EncryptedContainer_w(n, kind, "writekey", n, TRUE)),
                      !.ret = n]

(***************************************************************************)
(* S3Writer.close as seen by the storage: the object is complete in the    *)
(* bucket and the item loses its tentative mark.  S3Writer.abort: the item *)
(* is deleted.                                                             *)
(***************************************************************************)
S3Close(w, name, chunks, sz) ==
    [w EXCEPT !.s3 = Put(@, name, chunks),
              !.table = Put(@, name, S3Item(FALSE, sz))]

S3Abort(w, name) == [w EXCEPT !.table = Del(@, name)]

(***************************************************************************)
(* Bind(e, F) is F(e) with e evaluated once (let v = e in F(v)).           *)
(***************************************************************************)
Bind(e, F(_)) == CHOOSE res \in {F(v) : v \in {e}} : TRUE

(***************************************************************************)
(* A container that neither data_writer nor meta_writer refers to any more *)
(* is garbage: ec holds the containers the repository still refers to.     *)
(***************************************************************************)
_del_(w) ==
    [w EXCEPT !.r.ec = [n \in (DOMAIN @) \cap {w.r.data_writer, w.r.meta_writer} |-> @[n]]]

(***************************************************************************)
(* EncryptedRepo._finish(writer, fakesha, meta)                            *)
(***************************************************************************)
\* the tail of _finish: the object lists in memory are checked and cleared
_finish_clear(w, meta) ==
    LET objs == IF meta THEN w.r.meta_written_objs ELSE w.r.data_written_objs
    IN IF \E obj \in objs : ~idxlist_exists(w, obj) THEN Raise(w, "AssertionError")
       ELSE IF meta /\ separatemeta THEN [w EXCEPT !.r.meta_written_objs = {}]
       ELSE IF ~meta /\ separatemeta THEN [w EXCEPT !.r.data_written_objs = {}]
       ELSE [w EXCEPT !.r.meta_written_objs = {}, !.r.data_written_objs = {}]

\* the idx is written to the cache directory and uploaded as pack-<fakesha>.encidx
_finish_idx(w, c, fakesha) ==
    Bind([w EXCEPT !.cachedir = Put(@, fakesha, IdxFile(c.idxwriter))], LAMBDA w2 :
      IF IdxName(fakesha) \in DOMAIN w2.table THEN Raise(w2, "FileAlreadyExists")
      ELSE Bind(write(EncryptedContainer_w(IdxName(fakesha), "IDX", "repokey",
                                           IdxName(fakesha), FALSE),
                      0, None,
                      [id |-> w2.cachedir[fakesha], zlen |-> 8 + 28 * Len(c.idxwriter)]),
                LAMBDA e1 :
           Bind(S3Close(w2, IdxName(fakesha), e1.c.out, e1.c.offset), LAMBDA w3 :
             \* self.idxlist.refresh()
             [w3 EXCEPT !.r.idxlist = DOMAIN w3.cachedir])))

_finish(w, writer, fakesha, meta) ==
    Bind(finish(w.r.ec[writer]), LAMBDA f :
      IF f.exc # "" THEN Raise(w, f.exc)
      ELSE Bind(S3Close([w EXCEPT !.r.ec[writer] = f.c],
                        PackName(f.c.name), f.c.out, f.c.offset), LAMBDA w1 :
             Bind(_finish_idx(w1, f.c, fakesha), LAMBDA w4 :
               IF w4.exc # "" THEN w4 ELSE _finish_clear(w4, meta))))

(***************************************************************************)
(* EncryptedRepo._ensure_data_writer / _ensure_meta_writer.  An attribute  *)
(* that was never assigned (data_fakesha, meta_fakesha) is None here and   *)
(* reading it raises AttributeError.                                       *)
(***************************************************************************)
RECURSIVE _ensure_data_writer(_), _ensure_meta_writer(_)

\* the first if of _ensure_data_writer: rotation of a pack that is too large
_rotate_data_writer(w) ==
    IF ~(w.r.data_writer # None /\ size(w.r.ec[w.r.data_writer]) > max_pack_size)
    THEN w
    ELSE IF w.r.data_fakesha = None THEN Raise(w, "AttributeError")
    ELSE Bind(_finish(w, w.r.data_writer, w.r.data_fakesha, FALSE), LAMBDA f :
           IF f.exc # "" THEN f
           ELSE _del_([f EXCEPT !.r.meta_writer = IF @ = w.r.data_writer THEN None ELSE @,
                                !.r.data_writer = None]))

_ensure_data_writer(w) ==
    Bind(_rotate_data_writer(w), LAMBDA w1 :
      IF w1.exc # "" THEN w1
      ELSE IF w1.r.data_writer # None THEN w1
      ELSE IF separatemeta \/ w1.r.meta_writer = None
           THEN Bind(_create_new_pack(w1, "DATA"), LAMBDA p :
                  IF p.exc # "" THEN p
                  ELSE [p EXCEPT !.r.data_fakesha = p.ret, !.r.data_writer = p.ret])
      ELSE Bind(_ensure_meta_writer(w1), LAMBDA m :
             IF m.exc # "" THEN m
             ELSE [m EXCEPT !.r.data_writer = m.r.meta_writer]))

\* the first if of _ensure_meta_writer
_rotate_meta_writer(w) ==
    IF ~(w.r.meta_writer # None /\ size(w.r.ec[w.r.meta_writer]) > max_pack_size)
    THEN w
    ELSE IF w.r.meta_fakesha = None THEN Raise(w, "AttributeError")
    ELSE Bind(_finish(w, w.r.meta_writer, w.r.meta_fakesha,
                      w.r.meta_writer # w.r.data_writer), LAMBDA f :
           IF f.exc # "" THEN f
           ELSE _del_([f EXCEPT !.r.meta_writer = None]))

_ensure_meta_writer(w) ==
    Bind(_rotate_meta_writer(w), LAMBDA w1 :
      IF w1.exc # "" THEN w1
      ELSE IF w1.r.meta_writer # None THEN w1
      ELSE IF separatemeta
           THEN Bind(_create_new_pack(w1, "METADATA"), LAMBDA p :
                  IF p.exc # "" THEN p
                  ELSE [p EXCEPT !.r.meta_fakesha = p.ret, !.r.meta_writer = p.ret])
      ELSE Bind(_ensure_data_writer(w1), LAMBDA d :
             IF d.exc # "" THEN d
             ELSE [d EXCEPT !.r.meta_writer = d.r.data_writer]))

(***************************************************************************)
(* EncryptedRepo._data_write / _meta_write.  Without separatemeta          *)
(* meta_written_objs is the same set object as data_written_objs.          *)
(***************************************************************************)
_data_write(w, sha) ==
    IF exists(w, sha) THEN [w EXCEPT !.ret = sha]
    ELSE Bind(_ensure_data_writer(w), LAMBDA e :
           IF e.exc # "" THEN e
           ELSE Bind(write(e.r.ec[e.r.data_writer], objtype_of[sha], sha, content(sha)),
                     LAMBDA wr :
                  IF wr.exc # ""
                  THEN Raise([e EXCEPT !.r.ec[e.r.data_writer] = wr.c], wr.exc)
                  ELSE [e EXCEPT !.r.ec[e.r.data_writer] = wr.c,
                                 !.r.data_written_objs = @ \cup {sha},
                                 !.r.meta_written_objs =
                                     IF separatemeta THEN @ ELSE @ \cup {sha},
                                 !.ret = sha]))

\* a metadata write that takes the data writer whatever separatemeta says
_meta_write_shared(w, sha) == _data_write(w, sha)

_meta_write(w, sha) ==
    IF exists(w, sha) THEN [w EXCEPT !.ret = sha]
    ELSE Bind(_ensure_meta_writer(w), LAMBDA e :
           IF e.exc # "" THEN e
           ELSE Bind(write(e.r.ec[e.r.meta_writer], objtype_of[sha], sha, content(sha)),
                     LAMBDA wr :
                  IF wr.exc # ""
                  THEN Raise([e EXCEPT !.r.ec[e.r.meta_writer] = wr.c], wr.exc)
                  ELSE [e EXCEPT !.r.ec[e.r.meta_writer] = wr.c,
                                 !.r.meta_written_objs = @ \cup {sha},
                                 !.r.data_written_objs =
                                     IF separatemeta THEN @ ELSE @ \cup {sha},
                                 !.ret = sha]))

\* EncryptedRepo.just_write(sha, type, content, metadata)
just_write_(w, sha, metadata) ==
    IF metadata THEN _meta_write(w, sha) ELSE _data_write(w, sha)

(***************************************************************************)
(* EncryptedRepo.finish_writing / abort_writing / close                    *)
(***************************************************************************)
\* the first if of finish_writing: a metadata pack of its own is finished
_finish_meta_writer(w) ==
    IF ~(w.r.meta_writer # w.r.data_writer /\ w.r.meta_writer # None) THEN w
    ELSE IF w.r.meta_fakesha = None THEN Raise(w, "AttributeError")
    ELSE Bind(_finish(w, w.r.meta_writer, w.r.meta_fakesha, TRUE), LAMBDA f :
           IF f.exc # "" THEN f ELSE _del_([f EXCEPT !.r.meta_writer = None]))

\* the second if of finish_writing: the data pack is finished
_finish_data_writer(w) ==
    IF w.r.data_writer = None THEN w
    ELSE IF w.r.data_fakesha = None THEN Raise(w, "AttributeError")
    ELSE Bind(_finish(w, w.r.data_writer, w.r.data_fakesha, FALSE), LAMBDA f :
           IF f.exc # "" THEN f
           ELSE _del_([f EXCEPT !.r.meta_writer = IF @ = w.r.data_writer THEN None ELSE @,
                                !.r.data_writer = None]))

finish_writing(w) ==
    Bind(_finish_meta_writer(w), LAMBDA w1 :
      IF w1.exc # "" THEN w1 ELSE _finish_data_writer(w1))

\* EncryptedContainer.abort of writer n: the storage file is aborted if open
ContainerAbort(w, n) ==
    IF w.r.ec[n].file
    THEN S3Abort([w EXCEPT !.r.ec[n] = abort(@)], PackName(w.r.ec[n].name))
    ELSE w

_abort_meta_writer(w) ==
    IF w.r.meta_writer # w.r.data_writer /\ w.r.meta_writer # None
    THEN _del_([ContainerAbort(w, w.r.meta_writer) EXCEPT !.r.meta_writer = None])
    ELSE w

_abort_data_writer(w) ==
    IF w.r.data_writer = None THEN w
    ELSE _del_([ContainerAbort(w, w.r.data_writer)
                   EXCEPT !.r.meta_writer = IF @ = w.r.data_writer THEN None ELSE @,
                          !.r.data_writer = None])

abort_writing(w) == Bind(_abort_meta_writer(w), LAMBDA w1 : _abort_data_writer(w1))

close(w) ==
    Bind(abort_writing(w), LAMBDA w1 :
      [w1 EXCEPT !.r.ec_cache = NoReader, !.r.ec_cache_idx = {}, !.r.storage = FALSE])

(***************************************************************************)
(* EncryptedRepo.__init__ with _synchronize_idxes: the local idx cache is  *)
(* made equal to the listed remote idx files, then the idx list is opened. *)
(***************************************************************************)
\* remote_idx.replace(b'.encidx', b'.idx'): the local idx of pack n is cachedir[n]
local_idx(remote_idx) == remote_idx[2]

\* the idx files that storage.list(b'*.encidx') yields, by their local names
remote_idxes(t) == {local_idx(x) : x \in {y \in list(t) : y[3] = "encidx"}}

\* _synchronize_idxes that downloads and never deletes
_synchronize_idxes_keep(w) ==
    [w EXCEPT !.cachedir =
                 [n \in remote_idxes(w.table) \cup DOMAIN w.cachedir |->
                     IF n \in DOMAIN w.cachedir THEN w.cachedir[n]
                     ELSE read(w.s3[IdxName(n)], "IDX", "repokey", None).data],
              !.r.ec_cache_idx = remote_idxes(w.table) \ DOMAIN w.cachedir,
              !.r.local_idxes = DOMAIN w.cachedir \ remote_idxes(w.table)]

\* local_idxes is the local variable after the first loop (the files that the
\* second loop deletes); ec_cache_idx are the idx readers _open_read has left
\* in ec_cache
_synchronize_idxes(w) ==
    [w EXCEPT !.cachedir =
                 [n \in remote_idxes(w.table) |->
                     IF n \in DOMAIN w.cachedir THEN w.cachedir[n]
                     ELSE read(w.s3[IdxName(n)], "IDX", "repokey", None).data],
              !.r.ec_cache_idx = remote_idxes(w.table) \ DOMAIN w.cachedir,
              !.r.local_idxes = DOMAIN w.cachedir \ remote_idxes(w.table)]

__init__(w) ==
    Bind(_synchronize_idxes([w EXCEPT !.r = [ClosedRepo EXCEPT !.storage = TRUE,
                                                              !.pc = "idle"]]),
         LAMBDA w1 : [w1 EXCEPT !.r.idxlist = DOMAIN w1.cachedir])

(***************************************************************************)
(* EncryptedRepo.cat(hex oid): the idx list gives the pack and the offset, *)
(* the pack is opened for reading with the read key (_open_read of a       *)
(* Kind.DATA file) and the object is read.  An object that no idx has      *)
(* yields (None, None, None).                                              *)
(***************************************************************************)
cat(w, sha) ==
    LET found == UNION {{<<n, e[3]>> : e \in {x \in w.cachedir[n] : x[1] = sha}} :
                        n \in w.r.idxlist \cap DOMAIN w.cachedir}
    IN IF found = {} THEN [w EXCEPT !.r.catres = [sha |-> sha, exc |-> "", data |-> ""]]
       ELSE LET where == CHOOSE x \in found : TRUE
                got == IF PackName(where[1]) \in DOMAIN w.s3
                       THEN read(w.s3[PackName(where[1])], "DATA", readkey, where[2])
                       ELSE ReadFail
            IN IF got.ok
               THEN [w EXCEPT !.r.catres = [sha |-> sha, exc |-> "", data |-> got.data]]
               ELSE Raise([w EXCEPT !.r.catres = [sha |-> sha, exc |-> got.exc,
                                                  data |-> ""]],
                          got.exc)

(***************************************************************************)
(* Actions: the calls of a client on session s.  A call that raises leaves *)
(* the state it had reached.                                               *)
(***************************************************************************)
Return(s, w0) ==
    \E w \in {w0} :
    /\ repo' = [repo EXCEPT ![s] = w.r]
    /\ table' = w.table
    /\ s3' = w.s3
    /\ cachedir' = w.cachedir
    /\ next_fakesha' = w.next

Idle(s) == repo[s].pc = "idle"

\* the client writes an object after the objects it references
MayWrite(s, sha) ==
    /\ Idle(s)
    /\ \A child \in refs_of[sha] : exists(World(s), child)
    /\ next_fakesha <= MaxPacks

Open(s) ==
    /\ repo[s].pc = "closed"
    /\ opened < MaxSessions
    /\ opened' = opened + 1
    /\ Return(s, __init__(World(s)))
    /\ UNCHANGED <<separatemeta, max_pack_size, readkey>>

write_data(s) ==
    /\ \E sha \in Blobs :
          /\ MayWrite(s, sha)
          /\ Return(s, _data_write(World(s), sha))
    /\ UNCHANGED <<separatemeta, max_pack_size, readkey, opened>>

write_symlink(s) ==
    /\ \E sha \in Blobs :
          /\ MayWrite(s, sha)
          /\ Return(s, _meta_write(World(s), sha))
    /\ UNCHANGED <<separatemeta, max_pack_size, readkey, opened>>

write_bupm(s) ==
    /\ \E sha \in Blobs :
          /\ MayWrite(s, sha)
          /\ Return(s, _meta_write(World(s), sha))
    /\ UNCHANGED <<separatemeta, max_pack_size, readkey, opened>>

write_tree(s) ==
    /\ \E sha \in Trees :
          /\ MayWrite(s, sha)
          /\ Return(s, _meta_write(World(s), sha))
    /\ UNCHANGED <<separatemeta, max_pack_size, readkey, opened>>

write_commit(s) ==
    /\ \E sha \in Commits :
          /\ MayWrite(s, sha)
          /\ Return(s, _meta_write(World(s), sha))
    /\ UNCHANGED <<separatemeta, max_pack_size, readkey, opened>>

just_write(s) ==
    /\ \E sha \in Objs, metadata \in BOOLEAN :
          /\ MayWrite(s, sha)
          /\ Return(s, just_write_(World(s), sha, metadata))
    /\ UNCHANGED <<separatemeta, max_pack_size, readkey, opened>>

FinishWriting(s) ==
    /\ Idle(s)
    /\ Return(s, finish_writing(World(s)))
    /\ UNCHANGED <<separatemeta, max_pack_size, readkey, opened>>

AbortWriting(s) ==
    /\ Idle(s)
    /\ Return(s, abort_writing(World(s)))
    /\ UNCHANGED <<separatemeta, max_pack_size, readkey, opened>>

Cat(s) ==
    /\ Idle(s)
    /\ \E sha \in Objs : Return(s, cat(World(s), sha))
    /\ UNCHANGED <<separatemeta, max_pack_size, readkey, opened>>

\* the client closes the repository and drops the object
Close(s) ==
    /\ Idle(s)
    /\ Return(s, [close(World(s)) EXCEPT !.r = ClosedRepo])
    /\ UNCHANGED <<separatemeta, max_pack_size, readkey, opened>>

(***************************************************************************)
(* The refs file: a JSON object of hex ref names and hex object ids in one *)
(* CONFIG container, stored as one item of the table with a generation.    *)
(* hexlify is symbolic; unhexlify undoes it.                               *)
(***************************************************************************)
hexlify(x) == <<"hex", x>>
unhexlify(h) == h[2]

_encode_refs(refs) == [k \in {hexlify(n) : n \in DOMAIN refs} |-> refs[unhexlify(k)]]
_decode_refs(encrefs) == [k \in {unhexlify(h) : h \in DOMAIN encrefs} |-> encrefs[hexlify(k)]]

json_dumps(obj) == [json |-> obj]
json_loads(data) == data.json

\* the file that update_ref writes: one object of type 0 holding the JSON text
RefsFile(refs) ==
    write(EncryptedContainer_w(refsname, "CONFIG", "repokey", refsname, FALSE),
          0, None,
          [id |-> json_dumps(_encode_refs(refs)),
           zlen |-> 10 + 48 * Cardinality(DOMAIN refs)]).c.out

ConfigItem(generation, data) ==
    [tentative |-> FALSE, size |-> 0, generation |-> generation, data |-> data]

(***************************************************************************)
(* EncryptedRepo._json_refs with _open_read: the reader of the refs file   *)
(* (DynamoReader: the data and the generation of the item at the time of   *)
(* the query) is kept in ec_cache once it was opened successfully.         *)
(* Result: [w, readfile, refs].                                            *)
(***************************************************************************)
_open_read_refs(w) ==
    IF w.r.ec_cache.cached THEN w
    ELSE IF refsname \notin DOMAIN w.table THEN Raise(w, "FileNotFound")
    ELSE [w EXCEPT !.r.ec_cache = [cached |-> TRUE,
                                   generation |-> w.table[refsname].generation,
                                   data |-> w.table[refsname].data]]

_json_refs(w) ==
    Bind(_open_read_refs(w), LAMBDA w1 :
      IF w1.exc = "FileNotFound"
      THEN [w |-> w, readfile |-> NoFile, refs |-> Empty]
      ELSE [w |-> w1,
            readfile |-> [some |-> TRUE, generation |-> w1.r.ec_cache.generation],
            refs |-> _decode_refs(json_loads(
                        read(w1.r.ec_cache.data, "CONFIG", "repokey", None).data))])

\* the refs as stored in the table now
StoredRefs(t) ==
    IF refsname \in DOMAIN t
    THEN _decode_refs(json_loads(read(t[refsname].data, "CONFIG", "repokey", None).data))
    ELSE Empty

StoredRef(t, refname) ==
    IF refname \in DOMAIN StoredRefs(t) THEN unhexlify(StoredRefs(t)[refname]) ELSE NoOid

\* the names cat is called with: the branch and a name that is no ref
CatRefs == RefNames \cup {"nosuch"}

\* EncryptedRepo.read_ref(ref): the oid of the ref in the refs file, None
\* if there is none
read_ref(w, ref) ==
    Bind(_json_refs(w), LAMBDA j :
      [w |-> j.w,
       oid |-> IF ref \in DOMAIN j.refs THEN unhexlify(j.refs[ref]) ELSE NoOid])

\* EncryptedRepo.cat(ref) of a ref name
cat_ref(w, ref) ==
    Bind(read_ref(w, ref), LAMBDA r :
      IF r.oid = NoOid
      THEN Raise([r.w EXCEPT !.r.catres = [sha |-> NoOid, exc |-> "Exception", data |-> ""]],
                 "Exception")
      ELSE cat(r.w, r.oid))

CatRef(s) ==
    /\ Idle(s)
    /\ \E ref \in CatRefs : Return(s, cat_ref(World(s), ref))
    /\ UNCHANGED <<separatemeta, max_pack_size, readkey, opened>>

\* the idx files of the session's list hold the object
InIdx(s, sha) ==
    \E n \in repo[s].idxlist \cap DOMAIN cachedir : \E e \in cachedir[n] : e[1] = sha

\* C26: cat of a ref that does not exist does not raise and yields
\* (None, None, None) and nothing else, for an object id that no idx holds
\* and for a name that is not in the refs file alike.
C26_CatOfMissingRef ==
    \A s \in Sessions :
        /\ (repo[s].catres.sha # NoOid /\ ~InIdx(s, repo[s].catres.sha))
              => repo[s].catres.exc = "" /\ repo[s].catres.data = ""
        /\ repo[s].catres.sha = NoOid => repo[s].catres.exc = ""

\* C26 for object ids only
C26_CatOfMissingOid ==
    \A s \in Sessions :
        (repo[s].catres.sha # NoOid /\ ~InIdx(s, repo[s].catres.sha))
            => repo[s].catres.exc = "" /\ repo[s].catres.data = ""

(***************************************************************************)
(* EncryptedRepo.update_ref(refname, newval, oldval), in the steps at      *)
(* which it touches the storage:                                           *)
(*   start:  finish_writing()                                              *)
(*   read:   _json_refs(), the check of oldval, refs[refname] = newval     *)
(*   writer: EncryptedContainer(refsname, 'w', overwrite=readfile), which  *)
(*           is DynamoWriter.__init__, and reffile.write                   *)
(*   close:  reffile.finish(), which is DynamoWriter.close                 *)
(***************************************************************************)
update_ref_check(refs, refname, oldval) ==
    IF oldval = NoOid THEN ""
    ELSE IF refname \notin DOMAIN refs THEN "KeyError"
    ELSE IF refs[refname] # hexlify(oldval) THEN "AssertionError"
    ELSE ""

update_ref_read(w) ==
    Bind(_json_refs(w), LAMBDA j :
      Bind(update_ref_check(j.refs, w.r.frame.refname, w.r.frame.oldval), LAMBDA e :
        IF e # "" THEN Raise(j.w, e)
        ELSE [j.w EXCEPT !.r.frame.readfile = j.readfile,
                         !.r.frame.refs = Put(j.refs, w.r.frame.refname,
                                              hexlify(w.r.frame.newval))]))

\* DynamoWriter.__init__
DynamoWriter_init(w, name, overwrite) ==
    IF overwrite.some THEN w
    ELSE IF name \in DOMAIN w.table THEN Raise(w, "FileAlreadyExists")
    ELSE w

update_ref_writer(w) ==
    Bind(DynamoWriter_init(w, refsname, w.r.frame.readfile), LAMBDA w1 :
      IF w1.exc # "" THEN w1
      ELSE [w1 EXCEPT !.r.frame.reffile = RefsFile(w.r.frame.refs)])

\* DynamoWriter.close: a conditional put
DynamoWriter_close(w, name, overwrite, data) ==
    IF overwrite.some
    THEN IF name \in DOMAIN w.table /\ w.table[name].generation = overwrite.generation
         THEN [w EXCEPT !.table = Put(@, name, ConfigItem(overwrite.generation + 1, data))]
         ELSE Raise(w, "Exception")
    ELSE IF name \notin DOMAIN w.table
         THEN [w EXCEPT !.table = Put(@, name, ConfigItem(0, data))]
         ELSE Raise(w, "Exception")

update_ref_close(w) ==
    DynamoWriter_close(w, refsname, w.r.frame.readfile, w.r.frame.reffile)

\* a step of update_ref: on an exception, and after the last step, the call
\* is over and the frame keeps its arguments and the exception
Step(s, w0, nextpc) ==
    \E w \in {w0} :
      Return(s, IF w.exc # "" \/ nextpc = "idle"
                THEN [w EXCEPT !.r.pc = "idle",
                               !.r.frame = [NoFrame EXCEPT !.refname = w.r.frame.refname,
                                                           !.newval = w.r.frame.newval,
                                                           !.oldval = w.r.frame.oldval,
                                                           !.exc = w.exc]]
                ELSE [w EXCEPT !.r.pc = nextpc])

UpdateRefStart(s, newvals) ==
    /\ Idle(s)
    /\ refsname \in DOMAIN table => table[refsname].generation + 1 < MaxRefWrites
    /\ \E refname \in RefNames, newval \in newvals, oldval \in {NoOid, "c1"} :
          Step(s, finish_writing([World(s) EXCEPT
                     !.r.frame = [NoFrame EXCEPT !.refname = refname,
                                                 !.newval = newval,
                                                 !.oldval = oldval]]),
               "ur_read")
    /\ UNCHANGED <<separatemeta, max_pack_size, readkey, opened>>

UpdateRefRead(s) ==
    /\ repo[s].pc = "ur_read"
    /\ Step(s, update_ref_read(World(s)), "ur_writer")
    /\ UNCHANGED <<separatemeta, max_pack_size, readkey, opened>>

UpdateRefWriter(s) ==
    /\ repo[s].pc = "ur_writer"
    /\ Step(s, update_ref_writer(World(s)), "ur_close")
    /\ UNCHANGED <<separatemeta, max_pack_size, readkey, opened>>

UpdateRefClose(s) ==
    /\ repo[s].pc = "ur_close"
    /\ Step(s, update_ref_close(World(s)), "idle")
    /\ UNCHANGED <<separatemeta, max_pack_size, readkey, opened>>

update_ref(s) == UpdateRefStart(s, {c \in Commits : exists(World(s), c)})

\* the number of successive writes of the refs file in one run
MaxSuccessive == 3

\* the value the caller names as the old one: what its last successful
\* update_ref of this session wrote, else what the refs file holds
KnownRef(s) ==
    IF repo[s].frame.newval # NoOid /\ repo[s].frame.exc = ""
    THEN repo[s].frame.newval
    ELSE StoredRef(table, "main")

\* EncryptedRepo.update_ref called again and again by one session, each
\* time with the value it knows as the old one
UpdateRefSuccessive(s) ==
    /\ Idle(s)
    /\ repo[s].frame.exc = ""
    /\ refsname \in DOMAIN table => table[refsname].generation + 1 < MaxSuccessive
    /\ \E newval \in Commits \ {KnownRef(s)} :
          Step(s, finish_writing([World(s) EXCEPT
                     !.r.frame = [NoFrame EXCEPT !.refname = "main",
                                                 !.newval = newval,
                                                 !.oldval = KnownRef(s)]]),
               "ur_read")
    /\ UNCHANGED <<separatemeta, max_pack_size, readkey, opened>>

\* EncryptedRepo.read_ref as a call of its own: it leaves the refs reader
\* in ec_cache
ReadRef(s) ==
    /\ Idle(s)
    /\ \E ref \in RefNames : Return(s, read_ref(World(s), ref).w)
    /\ UNCHANGED <<separatemeta, max_pack_size, readkey, opened>>

\* the last update_ref of the session has returned without an exception
Updated(s) ==
    Idle(s) /\ repo[s].frame.newval # NoOid /\ repo[s].frame.exc = ""

\* C37: a session reads its own ref updates: after a successful
\* update_ref(name, new, old), read_ref(name) of the same session yields new,
\* and the following update_ref(name, new2, new) of the session succeeds,
\* with no other writer, for any number of successive updates.
C37_ReadsOwnUpdates ==
    /\ Updated(1) => read_ref(World(1), "main").oid = repo[1].frame.newval
    /\ Idle(1) => repo[1].frame.exc = ""

\* the first update of a session that has read no ref before is read back
C37_FirstUpdateReadBack ==
    (Updated(1) /\ ~repo[1].ec_cache.cached)
        => read_ref(World(1), "main").oid = repo[1].frame.newval

(***************************************************************************)
(* The AWS storage on its own: S3Writer objects are created, written to,   *)
(* closed and aborted.  s3w[k] is the k-th S3Writer object; table and s3   *)
(* are the DynamoDB table and the bucket.  The background upload of a part *)
(* (UploadThread running _bg_upload) either stores the part or raises, and *)
(* a raise is noticed by the next put() or finish() of the thread.         *)
(***************************************************************************)
VARIABLES s3w, ut, cr

stvars == <<s3w, ut, cr>>

\* hs is a run of the chunk tree builder, sd the stack of directory frames,
\* sv a run of save, call a call of a function on its own
VARIABLES hs, sd, sv, call

treevars == <<hs, sd, sv, call>>

vars == <<ecvars, repovars, stvars, treevars>>

MaxWriters == 2
MIN_AWS_CHUNK_SIZE == 5242880
DEFAULT_AWS_CHUNK_SIZE == MIN_AWS_CHUNK_SIZE * 10

Writers == 1..MaxWriters
StorageNames == {PackName(1), PackName(2)}
WriteSizes == {1048576, DEFAULT_AWS_CHUNK_SIZE}

\* bup.aws.*StorageClassThreshold when it is not configured
DefaultThreshold == 1024 * 1024

\* A bytes object is modelled by the positions its bytes have in the stream
\* of all bytes passed to write(): <<lo, hi>> are the bytes lo .. hi-1.
\* UploadFile is the list of the bytes objects written to it; x.buf is its
\* length and x.data its list.  x.parts are the buffers handed to
\* upload_thread.put in the order of the calls, x.pos the number of bytes
\* passed to write() so far.
BytesLen(b) == b[2] - b[1]

\* the index a Python slice bound i denotes in a sequence of length n
SliceIndex(n, i) ==
    IF i < 0 THEN (IF n + i < 0 THEN 0 ELSE n + i)
    ELSE IF i > n THEN n ELSE i

\* a slice that keeps all of data
SliceFrom_all(b, i) == b

\* data[:i] and data[i:]
SliceTo(b, i) == <<b[1], b[1] + SliceIndex(BytesLen(b), i)>>
SliceFrom(b, i) == <<b[1] + SliceIndex(BytesLen(b), i), b[2]>>

NoWriter ==
    [name |-> PackName(0), pc |-> "new", storage |-> FALSE, upload_thread |-> FALSE,
     thread_exc |-> FALSE, upload_id |-> FALSE, completed |-> FALSE,
     buf |-> 0, etags |-> <<>>, size |-> 0, nwrites |-> 0, exc |-> "",
     data |-> <<>>, parts |-> <<>>, pos |-> 0,
     threshold |-> DefaultThreshold, storage_class |-> ""]

\* S3Writer.__init__: the conditional put of the tentative item
S3Writer_init(x, t, name) ==
    IF name \in DOMAIN t
    THEN [x |-> [x EXCEPT !.name = name, !.pc = "failed", !.exc = "FileAlreadyExists"],
          table |-> t]
    ELSE [x |-> [x EXCEPT !.name = name, !.pc = "open", !.storage = TRUE,
                          !.upload_thread = TRUE],
          table |-> Put(t, name, S3Item(TRUE, 0))]

\* UploadThread.put(buf) with the upload of buf by the thread: put raises if an
\* earlier upload raised; ok tells whether the upload of this buffer succeeds
UploadThread_put(x, len, ok) ==
    IF x.thread_exc THEN [x EXCEPT !.exc = "Exception"]
    ELSE IF ok THEN [x EXCEPT !.etags = Append(@, len), !.parts = Append(@, x.data)]
    ELSE [x EXCEPT !.thread_exc = TRUE, !.parts = Append(@, x.data)]

\* UploadFile.write(b): an empty b is not kept
UploadFile_write(x, b) ==
    IF BytesLen(b) = 0 THEN x
    ELSE [x EXCEPT !.data = Append(@, b), !.buf = @ + BytesLen(b)]

\* AWSStorage._get_storage_class
_get_storage_class(threshold, sz) ==
    IF sz <= threshold THEN "small" ELSE "large"

\* S3Writer._start_upload: the first call creates the multipart upload
\* with the storage class of the size at that moment
_start_upload(x) ==
    IF x.upload_id THEN x
    ELSE [x EXCEPT !.upload_id = TRUE,
                   !.storage_class = _get_storage_class(x.threshold, x.size)]

\* S3Writer._upload_buf
_upload_buf(x, ok) ==
    [UploadThread_put(_start_upload(x), x.buf, ok) EXCEPT !.buf = 0, !.data = <<>>]

\* S3Writer.write(data) with len(data) = sz
S3Writer_write(x, sz, ok) ==
    IF x.buf + sz >= DEFAULT_AWS_CHUNK_SIZE
    THEN LET needed == DEFAULT_AWS_CHUNK_SIZE - x.buf
             data == <<x.pos, x.pos + sz>>
             u == _upload_buf(UploadFile_write(x, SliceTo(data, needed)), ok)
             sz1 == sz - needed
         IN IF u.exc # "" THEN u
            ELSE IF sz1 = 0 THEN [u EXCEPT !.size = @ + needed, !.pos = @ + sz]
            ELSE [UploadFile_write(u, SliceFrom(data, needed))
                     EXCEPT !.size = @ + needed + sz1, !.pos = @ + sz]
    ELSE [UploadFile_write(x, <<x.pos, x.pos + sz>>)
             EXCEPT !.size = @ + sz, !.pos = @ + sz]

\* S3Writer._end_thread: UploadThread.finish raises if an upload raised
_end_thread(x) ==
    IF ~x.upload_thread THEN x
    ELSE IF x.thread_exc THEN [x EXCEPT !.exc = "Exception"]
    ELSE [x EXCEPT !.upload_thread = FALSE]

\* S3Writer.close up to complete_multipart_upload
S3Writer_close_upload(x, ok) ==
    IF ~x.storage THEN [_end_thread(x) EXCEPT !.pc = "returned"]
    ELSE LET u == _upload_buf(x, ok)
         IN IF u.exc # "" THEN u
            ELSE LET e == _end_thread(u)
                 IN IF e.exc # "" THEN e
                    ELSE [e EXCEPT !.completed = TRUE, !.pc = "closing"]

\* S3Writer.close from the put of the final item
S3Writer_close_put(x, t) ==
    [x |-> [x EXCEPT !.storage = FALSE, !.pc = "closed"],
     table |-> Put(t, x.name, S3Item(FALSE, x.size))]

\* S3Writer.abort; on a writer that was closed it raises and changes nothing
S3Writer_abort(x, t) ==
    LET x1 == [x EXCEPT !.storage = FALSE,
                        !.pc = IF @ = "closed" THEN "closed" ELSE "aborted"]
        e == _end_thread(x1)
    IN IF e.exc # "" THEN [x |-> e, table |-> t]
       ELSE IF e.upload_id /\ ~x.storage
            THEN [x |-> [e EXCEPT !.exc = "AttributeError"], table |-> t]
       ELSE IF e.upload_id /\ e.completed
            THEN [x |-> [e EXCEPT !.exc = "NoSuchUpload"], table |-> t]
       ELSE IF ~x.storage
            THEN [x |-> [e EXCEPT !.exc = "AttributeError"], table |-> t]
       ELSE [x |-> e, table |-> Del(t, x.name)]

S3WCreate(k) ==
    /\ s3w[k].pc = "new"
    /\ \A j \in 1..(k - 1) : s3w[j].pc # "new"
    /\ \E name \in StorageNames :
          LET r == S3Writer_init(s3w[k], table, name)
          IN /\ s3w' = [s3w EXCEPT ![k] = r.x]
             /\ table' = r.table
    /\ UNCHANGED s3

S3WWrite(k) ==
    /\ s3w[k].pc = "open"
    /\ s3w[k].exc = ""
    /\ s3w[k].nwrites < MaxWrites
    /\ \E sz \in WriteSizes, ok \in BOOLEAN :
          s3w' = [s3w EXCEPT ![k] = [S3Writer_write(s3w[k], sz, ok) EXCEPT !.nwrites = @ + 1]]
    /\ UNCHANGED <<table, s3>>

S3WClose(k) ==
    /\ s3w[k].pc \in {"open", "aborted"}
    /\ s3w[k].exc = ""
    /\ \E ok \in BOOLEAN :
          LET x == S3Writer_close_upload(s3w[k], ok)
          IN /\ s3w' = [s3w EXCEPT ![k] = x]
             /\ s3' = IF x.pc = "closing" THEN Put(s3, x.name, x.etags) ELSE s3
    /\ UNCHANGED table

S3WClosePut(k) ==
    /\ s3w[k].pc = "closing"
    /\ LET r == S3Writer_close_put(s3w[k], table)
       IN /\ s3w' = [s3w EXCEPT ![k] = r.x]
          /\ table' = r.table
    /\ UNCHANGED s3

\* abort() is called by EncryptedContainer.abort, by __del__ after a call
\* raised, or by a client on a writer in any state
S3WAbort(k) ==
    /\ s3w[k].pc \in {"open", "closing", "closed"}
    /\ LET r == S3Writer_abort([s3w[k] EXCEPT !.exc = ""], table)
       IN /\ s3w' = [s3w EXCEPT ![k] = r.x]
          /\ table' = r.table
    /\ UNCHANGED s3

\* C9: storage.list() yields a name only if a writer of that file has
\* completed close(): the file of a writer that is open, inside close() or
\* aborted is not listed.
C9_ListedOnlyClosed ==
    \A name \in list(table) :
        /\ \E k \in Writers : s3w[k].name = name /\ s3w[k].pc = "closed"
        /\ name \in DOMAIN s3

\* one file is listed, its writer closed, while another writer is inside
\* close() with its upload complete and its item still tentative
C9_Witness ==
    \E j, k \in Writers :
        /\ s3w[j].pc = "closed" /\ s3w[j].name \in list(table)
        /\ s3w[k].pc = "closing" /\ s3w[k].name \notin list(table)
        /\ s3w[k].name \in DOMAIN table

\* abort() of the k-th writer in the state it is in
AbortOf(k) == S3Writer_abort([s3w[k] EXCEPT !.exc = ""], table)

\* C31: abort() of an open writer, in every state of the writer, the states
\* after a failure of the background uploader included, returns with the
\* remote side cleaned up: it passes the call that aborts the multipart
\* upload and the tentative item of the file is deleted from the table.
C31_AbortCleansUp ==
    \A k \in Writers :
        s3w[k].pc = "open" =>
            /\ AbortOf(k).x.exc = ""
            /\ s3w[k].name \notin DOMAIN AbortOf(k).table

\* C31 for the writers whose background uploader has not failed
C31_AbortWithoutUploadFailure ==
    \A k \in Writers :
        (s3w[k].pc = "open" /\ ~s3w[k].thread_exc) =>
            /\ AbortOf(k).x.exc = ""
            /\ s3w[k].name \notin DOMAIN AbortOf(k).table

(***************************************************************************)
(* UploadThread: a foreground thread calls put(buf) and finish(), the      *)
(* uploader thread executes run().  ut holds the object (_queue with its   *)
(* count of unfinished tasks, exc, write), the position of each thread     *)
(* (fpc, tpc) and what the foreground call has seen: failed is set when    *)
(* write(buf) has raised in the uploader, after_fail says that the current *)
(* or last foreground call began after that, late_put that a buffer was    *)
(* queued after that; ret is how the last foreground call ended.           *)
(* A step is what one thread does without the other being able to observe  *)
(* an intermediate state: one queue operation or one attribute access.     *)
(***************************************************************************)
MaxPuts == 2

NoUpload ==
    [queue |-> <<>>, unfinished |-> 0, exc |-> "", write |-> TRUE,
     tpc |-> "get", cur |-> None, raising |-> FALSE, written |-> <<>>,
     fpc |-> "idle", op |-> "", buf |-> None, nputs |-> 0, ret |-> "",
     failed |-> FALSE, after_fail |-> FALSE, late_put |-> FALSE]

\* put(buf) is called: _join_queue_check comes first
UploadThread_put_call ==
    /\ ut.fpc = "idle" /\ ut.write /\ ut.nputs < MaxPuts
    /\ ut' = [ut EXCEPT !.fpc = "join", !.op = "put", !.buf = ut.nputs + 1,
                        !.nputs = @ + 1, !.ret = "", !.after_fail = ut.failed]

\* finish() is called: put(None) comes first
UploadThread_finish_call ==
    /\ ut.fpc = "idle" /\ ut.write
    /\ ut' = [ut EXCEPT !.fpc = "join", !.op = "finish", !.buf = None,
                        !.ret = "", !.after_fail = ut.failed]

\* _join_queue_check: self._queue.join() returns when no task is unfinished
_join_queue_check_join ==
    /\ ut.fpc \in {"join", "join2"} /\ ut.unfinished = 0
    /\ ut' = [ut EXCEPT !.fpc = IF @ = "join" THEN "check" ELSE "check2"]

\* _join_queue_check: if self.exc
_join_queue_check_exc ==
    /\ ut.fpc \in {"check", "check2"}
    /\ ut' = [ut EXCEPT !.fpc = IF ut.exc # "" THEN "reraise"
                                ELSE IF @ = "check" THEN "put" ELSE "tjoin"]

\* _join_queue_check: self.join(), then reraise
_join_queue_check_reraise ==
    /\ ut.fpc = "reraise" /\ ut.tpc = "done"
    /\ ut' = [ut EXCEPT !.fpc = "idle", !.ret = ut.exc]

\* put: self._queue.put(buf), which waits while the queue is full (maxsize 1)
UploadThread_put_queue ==
    /\ ut.fpc = "put" /\ Len(ut.queue) < 1
    /\ ut' = [ut EXCEPT !.queue = Append(@, ut.buf), !.unfinished = @ + 1,
                        !.late_put = @ \/ (ut.failed /\ ut.buf # None),
                        !.fpc = IF ut.op = "put" THEN "idle" ELSE "join2",
                        !.ret = IF ut.op = "put" THEN "ok" ELSE @]

\* finish: self.join(); self.write = None
UploadThread_finish_join ==
    /\ ut.fpc = "tjoin" /\ ut.tpc = "done"
    /\ ut' = [ut EXCEPT !.fpc = "idle", !.write = FALSE, !.ret = "ok"]

\* run: buf = self._queue.get()
UploadThread_run_get ==
    /\ ut.tpc = "get" /\ ut.queue # <<>>
    /\ ut' = [ut EXCEPT !.cur = Head(ut.queue), !.queue = Tail(@),
                        !.tpc = IF Head(ut.queue) = None THEN "task_done" ELSE "write"]

\* run: self.write(buf) stores the buffer or raises
UploadThread_run_write ==
    /\ ut.tpc = "write"
    /\ \E ok \in BOOLEAN :
          ut' = [ut EXCEPT !.written = IF ok THEN Append(@, ut.cur) ELSE @,
                           !.raising = ~ok, !.failed = ~ok, !.tpc = "task_done"]

\* run: finally: self._queue.task_done(); then the next round, the return
\* after None, or the except clause
UploadThread_run_task_done ==
    /\ ut.tpc = "task_done"
    /\ ut' = [ut EXCEPT !.unfinished = @ - 1,
                        !.tpc = IF ut.raising THEN "except"
                                ELSE IF ut.cur = None THEN "done" ELSE "get"]

\* run: except: self.exc = sys.exc_info()
UploadThread_run_except ==
    /\ ut.tpc = "except"
    /\ ut' = [ut EXCEPT !.exc = "Exception", !.raising = FALSE, !.tpc = "done"]

(***************************************************************************)
(* S3CacheReader: cr holds the reader (size, blksize, offs, ranges, f_data *)
(* open or not), the two files of the cache (fn_rngs a list of lines,      *)
(* fn_data with 0 where nothing was written) and what the last read() was  *)
(* asked (last_offs, last_sz) and returned (ret, exc).  The byte at        *)
(* position i of the underlying file is Byte(i).  blksizes are the block   *)
(* sizes the cache files were used with.                                   *)
(***************************************************************************)
MaxFileSize == 6
MaxBlock == 3

Byte(i) == i + 1

Holes == [i \in 0..(MaxFileSize - 1) |-> 0]

NoCacheReader ==
    [pc |-> "closed", size |-> 0, blksize |-> 1, offs |-> 0, ranges |-> <<>>,
     f_data |-> FALSE, rngs_exists |-> FALSE, fn_rngs |-> <<>>,
     data_exists |-> FALSE, fn_data |-> Holes,
     last_offs |-> 0, last_sz |-> 0, ret |-> <<>>, exc |-> "", blksizes |-> {}]

\* a line of the ranges file, b'%d - %d', and what __init__ reads from it
FormatRange(r) == <<r[1], "-", r[2]>>
ParseRange(line) == <<line[1], line[3]>>

\* list.sort() of a list of pairs
sorted_ranges(l) ==
    LET less(a, b) == a[1] < b[1] \/ (a[1] = b[1] /\ a[2] < b[2])
        before(i, j) == less(l[i], l[j]) \/ (l[i] = l[j] /\ i < j)
        rank(i) == 1 + Cardinality({j \in 1..Len(l) : before(j, i)})
    IN [r \in 1..Len(l) |-> l[CHOOSE i \in 1..Len(l) : rank(i) = r]]

\* S3CacheReader.__init__
S3CacheReader_init(c, blksize) ==
    IF ~c.rngs_exists
    THEN [c EXCEPT !.pc = "open", !.blksize = blksize, !.offs = 0,
                   !.data_exists = FALSE, !.fn_data = Holes,
                   !.f_data = FALSE, !.ranges = <<>>,
                   !.blksizes = {blksize}, !.exc = "", !.ret = <<>>,
                   !.last_offs = 0, !.last_sz = 0]
    ELSE [c EXCEPT !.pc = "open", !.blksize = blksize, !.offs = 0,
                   !.f_data = TRUE,
                   !.ranges = sorted_ranges([i \in 1..Len(c.fn_rngs) |->
                                                ParseRange(c.fn_rngs[i])]),
                   !.blksizes = @ \cup {blksize}, !.exc = "", !.ret = <<>>,
                   !.last_offs = 0, !.last_sz = 0]

RECURSIVE _compress_loop(_, _, _, _)
\* the loop of _compress_ranges over the sorted ranges from index i on, with
\* the range (new) that is being built
_compress_loop(rs, i, new, out) ==
    IF i > Len(rs) THEN Append(out, new)
    ELSE IF new[2] + 1 = rs[i][1]
         THEN _compress_loop(rs, i + 1, <<new[1], rs[i][2]>>, out)
         ELSE _compress_loop(rs, i + 1, rs[i], Append(out, new))

\* a variant that leaves the list as it is
_compress_ranges_none(ranges) == ranges

_compress_ranges(ranges) ==
    IF ranges = <<>> THEN ranges
    ELSE _compress_loop(sorted_ranges(ranges), 2, sorted_ranges(ranges)[1], <<>>)

\* S3CacheReader._write_data
_write_data(c, offset, data) ==
    IF Len(data) = 0 THEN [c EXCEPT !.exc = "AssertionError"]
    ELSE LET ranges == _compress_ranges(Append(c.ranges, <<offset, offset + Len(data) - 1>>))
         IN [c EXCEPT !.f_data = TRUE, !.data_exists = TRUE,
                      !.fn_data = [i \in DOMAIN c.fn_data |->
                                      IF offset <= i /\ i < offset + Len(data)
                                      THEN data[i - offset + 1] ELSE c.fn_data[i]],
                      !.ranges = ranges,
                      !.rngs_exists = TRUE,
                      !.fn_rngs = [i \in 1..Len(ranges) |-> FormatRange(ranges[i])]]

\* S3Reader.seek(offs) and read(sz) of the underlying file
S3Reader_read(fsize, offs, sz) ==
    IF sz <= 0 THEN [exc |-> "AssertionError", data |-> <<>>]
    ELSE [exc |-> "",
          data |-> [k \in 1..(IF offs + sz > fsize THEN fsize - offs ELSE sz) |->
                       Byte(offs + k - 1)]]

\* the first element of the list that satisfies ok, 0 if there is none
First(l, ok(_)) ==
    IF \E i \in 1..Len(l) : ok(l[i])
    THEN CHOOSE i \in 1..Len(l) : ok(l[i]) /\ \A j \in 1..(i - 1) : ~ok(l[j])
    ELSE 0

RECURSIVE S3CacheReader_read_loop(_, _, _, _, _)
\* the while loop of S3CacheReader.read
S3CacheReader_read_loop(c, sz, szhint, beginoffs, data) ==
    IF sz = 0 THEN [c EXCEPT !.ret = data]
    ELSE LET hit == First(c.ranges, LAMBDA r : r[1] <= c.offs /\ c.offs <= r[2])
         IN IF hit # 0
            THEN LET avail == c.ranges[hit][2] - c.offs + 1
                     rsz == IF sz > avail THEN avail ELSE sz
                     rdata == [k \in 1..rsz |-> c.fn_data[c.offs + k - 1]]
                 IN S3CacheReader_read_loop([c EXCEPT !.offs = @ + rsz], sz - rsz,
                                            szhint, beginoffs, data \o rdata)
            ELSE LET blksize == c.blksize
                     offs == blksize * (c.offs \div blksize)
                     requested == szhint - (offs - beginoffs)
                     rounded == blksize * ((requested + blksize - 1) \div blksize)
                     upto_eof == IF offs + rounded > c.size THEN c.size - offs ELSE rounded
                     overlap == First(c.ranges, LAMBDA r : offs <= r[1] /\ r[1] < offs + upto_eof)
                     toread == IF overlap # 0 THEN c.ranges[overlap][1] - offs ELSE upto_eof
                     rd == S3Reader_read(c.size, offs, toread)
                 IN IF rd.exc # "" \/ Len(rd.data) # toread
                    THEN [c EXCEPT !.exc = "AssertionError"]
                    ELSE S3CacheReader_read_loop(_write_data(c, offs, rd.data), sz,
                                                 szhint, beginoffs, data)

\* S3CacheReader.read(sz, szhint)
S3CacheReader_read(c, sz, szhint) ==
    S3CacheReader_read_loop([c EXCEPT !.last_offs = c.offs, !.last_sz = sz,
                                      !.ret = <<>>],
                            sz,
                            IF szhint > c.size - c.offs THEN c.size - c.offs ELSE szhint,
                            c.offs, <<>>)

CacheOpen ==
    /\ cr.pc = "closed"
    /\ \E blksize \in 1..MaxBlock : cr' = S3CacheReader_init(cr, blksize)

CacheSeek ==
    /\ cr.pc = "open" /\ cr.exc = ""
    /\ \E offs \in 0..cr.size : cr' = [cr EXCEPT !.offs = offs, !.last_sz = 0, !.ret = <<>>]

CacheRead ==
    /\ cr.pc = "open" /\ cr.exc = ""
    /\ \E sz \in 1..(cr.size - cr.offs) : \E szhint \in sz..(cr.size + 1) :
          cr' = S3CacheReader_read(cr, sz, szhint)

\* the process ends; the files of the cache stay
CacheClose ==
    /\ cr.pc = "open"
    /\ cr' = [cr EXCEPT !.pc = "closed", !.f_data = FALSE]

RangesValid ==
    \A i \in 1..Len(cr.ranges) : \A p \in cr.ranges[i][1]..cr.ranges[i][2] :
        cr.data_exists /\ cr.fn_data[p] = Byte(p)

RangesDisjoint ==
    \A i \in 1..Len(cr.ranges) : \A j \in (i + 1)..Len(cr.ranges) :
        cr.ranges[i][2] < cr.ranges[j][1]

ReadExact ==
    (cr.pc = "open" /\ cr.last_sz > 0) =>
        /\ cr.exc = ""
        /\ cr.ret = [k \in 1..cr.last_sz |-> Byte(cr.last_offs + k - 1)]
        /\ cr.offs = cr.last_offs + cr.last_sz

\* C39: the download cache is transparent: for any block size, any sequence
\* of seek and read(sz, szhint) calls with szhint >= sz, and any cache
\* content left by earlier reads, read returns the bytes [offset, offset+sz)
\* of the underlying file and advances the offset by sz; every recorded
\* range holds bytes of the underlying file, and the recorded ranges are
\* sorted and pairwise disjoint.
C39_CacheTransparent == ReadExact /\ RangesValid /\ RangesDisjoint

\* C39 for a cache that was always read with the same block size
C39_TransparentWithOneBlockSize ==
    Cardinality(cr.blksizes) <= 1 => (ReadExact /\ RangesValid /\ RangesDisjoint)

(***************************************************************************)
(* An S3Writer with its UploadThread.  A call of the writer updates the    *)
(* writer at once; the put() of the buffer it hands off and the finish()   *)
(* of close() then run step by step against the uploader, and the next     *)
(* call of the writer begins when they have returned.  The uploader        *)
(* numbers a part len(self.etags) + 1 when it uploads it: the i-th buffer  *)
(* of ut.written is part i.                                                *)
(***************************************************************************)
MaxStreamWrites == 3

StreamSizes == WriteSizes \cup {1, 2 * DEFAULT_AWS_CHUNK_SIZE + 1, 3 * DEFAULT_AWS_CHUNK_SIZE}

\* thresholds the configuration check of AWSStorage.__init__ lets pass
Thresholds == {0, DefaultThreshold, DEFAULT_AWS_CHUNK_SIZE - 1}

\* no foreground call is running and none has raised
ForegroundFree ==
    ut.fpc = "idle" /\ ut.write /\ ut.ret # "Exception" /\ ut.nputs = Len(s3w[1].parts)

StreamCreate ==
    /\ S3WCreate(1)
    /\ UNCHANGED ut

StreamWrite ==
    /\ s3w[1].pc = "open" /\ ForegroundFree
    /\ s3w[1].nwrites < MaxStreamWrites
    /\ \E sz \in StreamSizes :
          s3w' = [s3w EXCEPT ![1] = [S3Writer_write(s3w[1], sz, TRUE) EXCEPT !.nwrites = @ + 1]]
    /\ UNCHANGED <<table, s3, ut>>

\* self.upload_thread.put(self.buf) of _upload_buf
StreamPut ==
    /\ ut.fpc = "idle" /\ ut.write /\ ut.ret # "Exception"
    /\ ut.nputs < Len(s3w[1].parts)
    /\ ut' = [ut EXCEPT !.fpc = "join", !.op = "put", !.buf = ut.nputs + 1,
                        !.nputs = @ + 1, !.ret = "", !.after_fail = ut.failed]
    /\ UNCHANGED <<s3w, table, s3>>

\* close(): self._upload_buf()
StreamClose ==
    /\ s3w[1].pc = "open" /\ ForegroundFree
    /\ s3w' = [s3w EXCEPT ![1] = S3Writer_close_upload(s3w[1], TRUE)]
    /\ UNCHANGED <<table, s3, ut>>

\* close(): self._end_thread()
StreamFinish ==
    /\ s3w[1].pc = "closing" /\ ForegroundFree
    /\ ut' = [ut EXCEPT !.fpc = "join", !.op = "finish", !.buf = None,
                        !.ret = "", !.after_fail = ut.failed]
    /\ UNCHANGED <<s3w, table, s3>>

\* the parts that were uploaded, by part number
UploadedParts == [i \in 1..Len(ut.written) |-> s3w[1].parts[ut.written[i]]]

\* close(): complete_multipart_upload and the put of the item
StreamComplete ==
    /\ s3w[1].pc = "closing"
    /\ ut.fpc = "idle" /\ ~ut.write /\ ut.ret = "ok"
    /\ s3' = Put(s3, s3w[1].name, UploadedParts)
    /\ LET r == S3Writer_close_put(s3w[1], table)
       IN /\ s3w' = [s3w EXCEPT ![1] = r.x]
          /\ table' = r.table
    /\ UNCHANGED ut

RECURSIVE Concat(_)
\* the parts of an object one after the other
Concat(parts) ==
    IF parts = <<>> THEN <<>> ELSE Head(parts) \o Concat(Tail(parts))

\* the bytes objects bs, one after the other, are the bytes 0 .. n-1 of the
\* stream
IsStream(bs, n) ==
    /\ \A i \in 1..Len(bs) : bs[i][1] < bs[i][2]
    /\ \A i \in 1..(Len(bs) - 1) : bs[i][2] = bs[i + 1][1]
    /\ IF bs = <<>> THEN n = 0 ELSE bs[1][1] = 0 /\ bs[Len(bs)][2] = n

\* the buffers that are queued or being uploaded
InFlight ==
    Cardinality({i \in 1..Len(ut.queue) : ut.queue[i] # None})
        + (IF ut.tpc = "write" THEN 1 ELSE 0)

StreamClosed == s3w[1].pc = "closed"

\* C38: S3Writer keeps the byte stream intact: for write() calls of any
\* sizes followed by close(), at most one buffer is queued or being uploaded
\* at a time, the parts get consecutive part numbers in hand-off order, the
\* parts in part-number order are the written data, and the recorded size is
\* the number of bytes written.
C38_ByteStreamIntact ==
    /\ InFlight <= 1
    /\ \A i \in 1..Len(ut.written) : ut.written[i] = i
    /\ StreamClosed =>
          /\ Len(s3[s3w[1].name]) = Len(s3w[1].parts)
          /\ IsStream(Concat(s3[s3w[1].name]), s3w[1].pos)
          /\ table[s3w[1].name].size = s3w[1].pos

\* a file of three parts with a write of several chunk sizes in it and a
\* write into a buffer that is longer than a chunk
C38_Witness ==
    /\ StreamClosed
    /\ Len(s3[s3w[1].name]) >= 3
    /\ s3w[1].pos > 3 * DEFAULT_AWS_CHUNK_SIZE
    /\ \E i \in 1..Len(s3[s3w[1].name]) : Len(s3[s3w[1].name][i]) = 2

\* C40: an uploaded file is created with the 'large' storage class of its
\* kind exactly when its final size exceeds the threshold of the kind, and
\* with the 'small' class otherwise.
C40_StorageClass ==
    StreamClosed =>
        s3w[1].storage_class = (IF table[s3w[1].name].size > s3w[1].threshold
                                THEN "large" ELSE "small")

\* C40 for the files whose first upload is the one of close()
C40_StorageClassOfSmallFiles ==
    (StreamClosed /\ Len(s3w[1].parts) = 1) =>
        s3w[1].storage_class = (IF table[s3w[1].name].size > s3w[1].threshold
                                THEN "large" ELSE "small")

\* C14: after the upload of a buffer has raised, a foreground put() or
\* finish() that begins after that raises the exception: it does not pass
\* the check of self.exc, it does not end without the exception, no buffer
\* is queued any more, and the call does not wait for ever for a queue that
\* the ended uploader does not serve.
C14_UploadFailureRaised ==
    /\ ut.after_fail => ut.fpc \notin {"put", "join2", "check2", "tjoin"}
    /\ (ut.after_fail /\ ut.fpc = "idle") => ut.ret = "Exception"
    /\ ~ut.late_put
    /\ ~(ut.tpc = "done" /\ ut.unfinished > 0 /\ ut.fpc \in {"join", "join2"})

(***************************************************************************)
(* What the storage holds: the packs whose writer was closed, the objects  *)
(* in them and the idx files uploaded for them.                            *)
(***************************************************************************)
FinishedPacks(t) == {nm[2] : nm \in {x \in list(t) : x[3] = "encpack"}}

UploadedIdxes(t) == {nm[2] : nm \in {x \in list(t) : x[3] = "encidx"}}

\* the sha of the object in chunk i of a pack file
ChunkSha(chunks, i) == chunks[i].box.z.data

PackShas(chunks) == {ChunkSha(chunks, i) : i \in 2..Len(chunks)}

InFinishedPack(sha) == \E n \in FinishedPacks(table) : sha \in PackShas(s3[PackName(n)])

\* the uploaded idx of pack n, decrypted with the repository key
RemoteIdx(n) == read(s3[IdxName(n)], "IDX", "repokey", None)

\* sha is in a finished pack of the storage (t, b) whose idx is uploaded
DurableIn(t, b, sha) ==
    \E n \in FinishedPacks(t) \cap UploadedIdxes(t) :
        /\ sha \in PackShas(b[PackName(n)])
        /\ read(b[IdxName(n)], "IDX", "repokey", None).ok
        /\ \E e \in read(b[IdxName(n)], "IDX", "repokey", None).data : e[1] = sha

Durable(sha) == DurableIn(table, s3, sha)

\* the objects in the packs that session s has open
InOpenPack(w) ==
    UNION {PackShas(w.r.ec[n].out) : n \in {m \in DOMAIN w.r.ec : w.r.ec[m].file}}

\* the places at which sha was appended: in the open packs of session s and
\* in the finished packs of the storage
Appended(s, sha) ==
    UNION ({{<<n, i>> : i \in {j \in 2..Len(repo[s].ec[n].out) :
                                 ChunkSha(repo[s].ec[n].out, j) = sha}} :
            n \in {m \in DOMAIN repo[s].ec : repo[s].ec[m].file}}
           \cup
           {{<<n, i>> : i \in {j \in 2..Len(s3[PackName(n)]) :
                                 ChunkSha(s3[PackName(n)], j) = sha}} :
            n \in FinishedPacks(table)})

\* C1: in one session an object is appended to a pack at most once, across
\* rotations and finish_writing, and an object that is in the idx of a pack
\* of an earlier session is not appended at all: over the open packs of the
\* session and the finished packs, every sha occurs at most once.
C1_AppendedAtMostOnce ==
    \A s \in Sessions, sha \in Objs : Cardinality(Appended(s, sha)) <= 1

\* a later session has appended a tree to its open pack, whose blob it found
\* in the idx of an earlier session
C1_Witness ==
    \E s \in Sessions :
        /\ opened = 2
        /\ \E n \in FinishedPacks(table) \ DOMAIN repo[s].ec : "b1" \in PackShas(s3[PackName(n)])
        /\ \E n \in DOMAIN repo[s].ec :
              repo[s].ec[n].file /\ "t1" \in PackShas(repo[s].ec[n].out)

\* C2: every finished pack has an uploaded idx of the same id, and that idx
\* has exactly one entry for each object of the pack, with the offset the
\* write returned (the position of the object in the file), and no other.
C2_IdxMatchesPack ==
    \A n \in FinishedPacks(table) :
        /\ n \in UploadedIdxes(table)
        /\ RemoteIdx(n).ok
        /\ LET chunks == s3[PackName(n)]
               idx == RemoteIdx(n).data
           IN /\ \A i \in 2..Len(chunks) :
                    /\ Cardinality({e \in idx : e[1] = ChunkSha(chunks, i)}) = 1
                    /\ \A e \in idx : e[1] = ChunkSha(chunks, i) =>
                          /\ e[3] = Pos(chunks, i)
                          /\ read(chunks, "DATA", "readkey", e[3]).ok
                          /\ read(chunks, "DATA", "readkey", e[3]).data = e[1]
              /\ \A e \in idx : e[1] \in PackShas(chunks)
              /\ Cardinality(idx) = Len(chunks) - 1

\* two finished packs, one of them with at least two objects
C2_Witness ==
    /\ Cardinality(FinishedPacks(table)) >= 2
    /\ \E n \in FinishedPacks(table) : Len(s3[PackName(n)]) >= 3

\* C6: while update_ref reads and rewrites the refs file the session has
\* no pack open and every object it holds as written is in a finished pack
\* whose idx is uploaded; a stored ref never names an object that is not.
C6_RefsNameDurable ==
    /\ \A s \in Sessions :
          repo[s].pc \in {"ur_read", "ur_writer", "ur_close"} =>
             /\ repo[s].data_writer = None
             /\ repo[s].meta_writer = None
             /\ \A sha \in repo[s].data_written_objs \cup repo[s].meta_written_objs :
                   Durable(sha)
    /\ \A refname \in RefNames :
          StoredRef(table, refname) \in Objs => Durable(StoredRef(table, refname))

\* C7: a tree or commit in a finished pack has every object it references
\* in a finished pack.
C7_ReferencedAreFinished ==
    \A sha \in Trees \cup Commits :
        InFinishedPack(sha) => \A child \in refs_of[sha] : InFinishedPack(child)

\* C8: after abort_writing both writers are absent and both sets of written
\* objects are empty; exists is false for an object that was only in an
\* aborted pack; writing such an object again puts it into a pack, and the
\* finish_writing after that succeeds.
C8_AbortDiscards ==
    \A s \in Sessions :
        Idle(s) =>
           LET w == abort_writing(World(s))
           IN /\ w.r.data_writer = None
              /\ w.r.meta_writer = None
              /\ w.r.data_written_objs = {}
              /\ w.r.meta_written_objs = {}
              /\ \A sha \in InOpenPack(World(s)) :
                    ~idxlist_exists(w, sha) =>
                       /\ ~exists(w, sha)
                       /\ sha \in InOpenPack(just_write_(w, sha, FALSE))
                       /\ finish_writing(just_write_(w, sha, FALSE)).exc = ""

\* C10: closing the repository finishes the open packs: every object that is
\* in an open pack when close() is called is durable after it and is found
\* through the idx list when the repository is opened again.
C10_CloseFinishes ==
    \A s \in Sessions :
        Idle(s) =>
           LET w == close(World(s))
           IN \A sha \in InOpenPack(World(s)) :
                 /\ DurableIn(w.table, w.s3, sha)
                 /\ idxlist_exists(__init__(w), sha)

\* the writer a write with the given metadata flag goes to
TargetWriter(w, metadata) == IF metadata THEN w.r.meta_writer ELSE w.r.data_writer

\* the target pack of a write is open and larger than max_pack_size
MustRotate(w, metadata) ==
    /\ TargetWriter(w, metadata) # None
    /\ size(w.r.ec[TargetWriter(w, metadata)]) > max_pack_size

\* C11: a data write and a metadata write of an object that does not exist
\* yet, made when the target open pack is larger than max_pack_size, succeeds:
\* the old pack is finished with its idx uploaded, the writer is a new open
\* pack, and the object is in the new pack and not in the old one.
C11_Rotation ==
    \A s \in Sessions, sha \in Objs, metadata \in BOOLEAN :
        (Idle(s) /\ ~exists(World(s), sha) /\ MustRotate(World(s), metadata)) =>
           LET old == TargetWriter(World(s), metadata)
               w == just_write_(World(s), sha, metadata)
               new == TargetWriter(w, metadata)
           IN /\ w.exc = ""
              /\ old \in FinishedPacks(w.table) \cap UploadedIdxes(w.table)
              /\ sha \notin PackShas(w.s3[PackName(old)])
              /\ new # None /\ new # old
              /\ w.r.ec[new].file
              /\ sha \in PackShas(w.r.ec[new].out)

\* the packs of the given kind that are open in the storage: created by a
\* writer and neither closed nor aborted
OpenPacks(t, r, kind) ==
    {n \in DOMAIN r.ec : /\ r.ec[n].kind = kind
                         /\ r.ec[n].file
                         /\ PackName(n) \in DOMAIN t
                         /\ t[PackName(n)].tentative}

\* C12: a session has at most one open data pack and at most one open
\* metadata pack; without separatemeta the metadata writer is absent or is
\* the data writer; a writer attribute never refers to a container that was
\* finished or aborted.
C12_WriterInvariant ==
    \A s \in Sessions :
        /\ Cardinality(OpenPacks(table, repo[s], "DATA")) <= 1
        /\ Cardinality(OpenPacks(table, repo[s], "METADATA")) <= 1
        /\ ~separatemeta =>
              \/ repo[s].meta_writer = None
              \/ repo[s].meta_writer = repo[s].data_writer
        /\ \A n \in {repo[s].data_writer, repo[s].meta_writer} \ {None} :
              /\ n \in DOMAIN repo[s].ec
              /\ repo[s].ec[n].file

\* the object is in a pack of the given kind that the session has open
InOpenPackOfKind(w, sha, kind) ==
    \E n \in DOMAIN w.r.ec :
        /\ w.r.ec[n].kind = kind
        /\ sha \in PackShas(w.r.ec[n].out)

\* the session has a pack of the given kind open
HasPackOfKind(w, kind) == \E n \in DOMAIN w.r.ec : w.r.ec[n].kind = kind

\* where a write that returned has left the object: with separatemeta a
\* metadata write in a METADATA pack and a data write in a DATA pack, without
\* it both in the one pack that both writers refer to
Routed(w, sha, metadata) ==
    IF separatemeta
    THEN InOpenPackOfKind(w, sha, IF metadata THEN "METADATA" ELSE "DATA")
    ELSE /\ InOpenPackOfKind(w, sha, "DATA")
         /\ ~HasPackOfKind(w, "METADATA")
         /\ w.r.meta_writer \in {None, w.r.data_writer}

\* the calls of the claim: write_data is a data write of a blob, write_tree,
\* write_commit, write_symlink and write_bupm are metadata writes
WriteCalls ==
    {c \in Objs \X BOOLEAN : (~c[2]) => c[1] \in Blobs}

\* C28: with separatemeta every object written through write_tree,
\* write_commit, write_symlink or write_bupm is stored in a pack of kind
\* METADATA and every object written through write_data in a pack of kind
\* DATA, whatever was written before; without separatemeta all objects go to
\* one shared pack.  Stated for the objects that no finished pack of the idx
\* list holds, which are in no pack or in a pack that the session has open.
C28_Routing ==
    \A s \in Sessions, c \in WriteCalls :
        (MayWrite(s, c[1]) /\ ~idxlist_exists(World(s), c[1])) =>
           LET w == just_write_(World(s), c[1], c[2])
           IN w.exc = "" => Routed(w, c[1], c[2])

\* C28 for the objects that the repository does not hold yet: the write goes
\* to the pack of its kind.  An object that exists is not written again and
\* stays in the pack of the call that wrote it first.
C28_RoutingOfNewObjects ==
    \A s \in Sessions, c \in WriteCalls :
        (MayWrite(s, c[1]) /\ ~exists(World(s), c[1])) =>
           LET w == just_write_(World(s), c[1], c[2])
           IN w.exc = "" => Routed(w, c[1], c[2])

\* a session with separatemeta holds a blob in its open data pack and a tree
\* in its open metadata pack, and a commit that is new to it can be written
C28_Witness ==
    /\ separatemeta
    /\ \E s \in Sessions :
          /\ InOpenPackOfKind(World(s), "b1", "DATA")
          /\ InOpenPackOfKind(World(s), "t1", "METADATA")
          /\ MayWrite(s, "c1") /\ ~exists(World(s), "c1")
          /\ just_write_(World(s), "c1", TRUE).exc = ""

\* C15: a repository with repokey and writekey and without readkey finishes
\* packs with their idx files and stores refs, and what it stored of these
\* is readable with the repokey: every uploaded idx and the refs file; no
\* object of any finished pack can be read, at any offset, and a cat() of
\* an object that the idx list has raises and never yields data.
C15_AppendOnly ==
    readkey = NoKey =>
       /\ \A n \in UploadedIdxes(table) :
             /\ RemoteIdx(n).ok
             /\ \A e \in RemoteIdx(n).data : e[1] \in PackShas(s3[PackName(n)])
       /\ refsname \in DOMAIN table =>
             read(table[refsname].data, "CONFIG", "repokey", None).ok
       /\ \A n \in FinishedPacks(table) :
             \A i \in 1..Len(s3[PackName(n)]) :
                ~read(s3[PackName(n)], "DATA", readkey, Pos(s3[PackName(n)], i)).ok
       /\ \A s \in Sessions :
             /\ repo[s].catres.data = ""
             /\ Idle(s) =>
                   \A sha \in Objs :
                      idxlist_exists(World(s), sha) => cat(World(s), sha).exc # ""

\* without readkey a session has stored a commit under a ref, the commit is
\* in a finished pack with its idx, and a cat of the commit has raised
C15_Witness ==
    /\ readkey = NoKey
    /\ \E c \in Commits :
          /\ StoredRef(table, "main") = c
          /\ Durable(c)
          /\ \E s \in Sessions :
                repo[s].catres = [sha |-> c, exc |-> "AssertionError", data |-> ""]

(***************************************************************************)
(* Tampering with the stored packs.  The storage is not trusted: whoever   *)
(* holds it can change the bytes of a pack.  The repository has two        *)
(* finished packs of two objects each, written by the operations above;    *)
(* the local idx files say what was written at which offset.  Each record  *)
(* is tampered with at most once, and at most MaxTampered records are.     *)
(***************************************************************************)
MaxTampered == 2

NewWorld ==
    [r |-> ClosedRepo, table |-> Empty, s3 |-> Empty, cachedir |-> Empty,
     next |-> 1, exc |-> "", ret |-> None]

\* pack n with its two objects written, before it is finished
TamperPack(n) ==
    LET shas == IF n = 1 THEN <<"c1", "b1">> ELSE <<"c2", "t1">>
        c0 == EncryptedContainer_w(n, "DATA", write_key("DATA"), n, TRUE)
        c1 == write(c0, objtype_of[shas[1]], shas[1], content(shas[1])).c
    IN write(c1, objtype_of[shas[2]], shas[2], content(shas[2])).c

\* the records as they were written
Written == [n \in {1, 2} |-> TamperPack(n).out]

\* both packs finished by _finish, then the repository opened
TamperWorld ==
    __init__(_finish(_finish([NewWorld EXCEPT !.r.ec = [n \in {1, 2} |-> TamperPack(n)]],
                             1, 1, FALSE),
                     2, 2, FALSE))

\* the records of the stored packs that are not the records written
Tampered(b) ==
    {<<n, i>> \in {1, 2} \X (2..3) : b[PackName(n)][i] # Written[n][i]}

\* the record written at the offset of idx entry e of pack n is not there
TamperedAt(b, n, e) ==
    \A i \in ChunkAt(b[PackName(n)], e[3]) : b[PackName(n)][i] # Written[n][i]

Tamper(n, i, rec) ==
    /\ <<n, i>> \notin Tampered(s3)
    /\ Cardinality(Tampered(s3)) < MaxTampered
    /\ s3' = [s3 EXCEPT ![PackName(n)][i] = rec]
    /\ UNCHANGED <<repo, table, cachedir, next_fakesha, separatemeta, max_pack_size,
                   readkey, opened>>

\* a bit of the box of a record is changed: it authenticates under no key
FlipBoxBit ==
    \E n \in {1, 2}, i \in 2..3 :
        Tamper(n, i, [Written[n][i] EXCEPT !.box.sk = None])

\* a bit of the first byte of the encrypted size is changed
FlipSizeBit ==
    \E n \in {1, 2}, i \in 2..3, bit \in {1, 32, 128} :
        Tamper(n, i, [Written[n][i] EXCEPT
                         !.encvuint[1].v = IF (@ \div bit) % 2 = 1 THEN @ - bit ELSE @ + bit])

\* a record is copied over a record of the same file or of the other file
CopyRecord ==
    \E n \in {1, 2}, i \in 2..3, m \in {1, 2}, j \in 2..3 :
        /\ <<n, i>> # <<m, j>>
        /\ Tamper(n, i, Written[m][j])

\* the two records of a file change places
MoveRecord ==
    \E n \in {1, 2} :
        /\ Tampered(s3) = {}
        /\ s3' = [s3 EXCEPT ![PackName(n)][2] = Written[n][3],
                            ![PackName(n)][3] = Written[n][2]]
        /\ UNCHANGED <<repo, table, cachedir, next_fakesha, separatemeta, max_pack_size,
                       readkey, opened>>

\* what the idx files say and what reading there gives
ReadAt(n, e) == read(s3[PackName(n)], "DATA", readkey, e[3])

C13_IdxSynchronized ==
    \A s \in Sessions :
        /\ repo[s].pc = "closed" =>
              LET w == _synchronize_idxes(World(s))
              IN /\ DOMAIN w.cachedir = remote_idxes(table)
                 /\ \A n \in DOMAIN w.cachedir :
                       IF n \in DOMAIN cachedir THEN w.cachedir[n] = cachedir[n]
                       ELSE /\ RemoteIdx(n).ok
                            /\ w.cachedir[n] = RemoteIdx(n).data
                 /\ w.r.local_idxes = DOMAIN cachedir \ DOMAIN w.cachedir
                 /\ w.table = table /\ w.s3 = s3
        /\ Idle(s) => repo[s].idxlist = remote_idxes(table)

\* a repository was opened and has deleted a local idx, downloaded a remote
\* idx and kept a local idx whose content is not that of the remote one
C13_Witness ==
    \E s \in Sessions :
        /\ Idle(s)
        /\ repo[s].local_idxes # {}
        /\ repo[s].ec_cache_idx # {}
        /\ \E n \in DOMAIN cachedir \ repo[s].ec_cache_idx :
              cachedir[n] # RemoteIdx(n).data

(***************************************************************************)
(* The refs file.                                                          *)
(***************************************************************************)
\* a step writes the refs file
RefsWritten ==
    /\ refsname \in DOMAIN table'
    /\ refsname \in DOMAIN table => table'[refsname] # table[refsname]

\* C4: update_ref(name, new, old) is a compare-and-swap.  The refs file is
\* written only by the last step of an update_ref that succeeds, the ref held
\* old just before that step (old = None: the ref was absent) and holds new
\* after it; a call that fails writes nothing.
C4_CompareAndSwap ==
    [][RefsWritten =>
          \E s \in Sessions :
             /\ repo[s].pc = "ur_close"
             /\ repo'[s].pc = "idle"
             /\ repo'[s].frame.exc = ""
             /\ StoredRef(table, repo[s].frame.refname) = repo[s].frame.oldval
             /\ StoredRef(table', repo[s].frame.refname) = repo[s].frame.newval]_vars

\* C5: two sessions ran update_ref on the same ref with the same old value,
\* the value stored when both calls began, and different new values: when
\* both calls are over exactly one has succeeded and the ref is its new value.
C5_ExactlyOneWins ==
    (/\ \A s \in Sessions : repo[s].pc = "idle"
     /\ repo[1].frame.refname = repo[2].frame.refname
     /\ repo[1].frame.oldval = repo[2].frame.oldval
     /\ repo[1].frame.newval # repo[2].frame.newval)
    => \E s \in Sessions :
          /\ repo[s].frame.exc = ""
          /\ \A t \in Sessions \ {s} : repo[t].frame.exc # ""
          /\ StoredRef(table, repo[s].frame.refname) = repo[s].frame.newval

(***************************************************************************)
(* The chunk tree builder of hashsplit.py.  The splitter hands over the    *)
(* chunks of a file one by one, each with a level; makeblob and maketree   *)
(* store a blob or a tree by content and return its id.  A blob is known   *)
(* by a number, BlobLen gives its length; the tree <<"tree", k>> is the    *)
(* k-th tree stored, hs.trees[k] its shalist.  A name is the sequence of   *)
(* its hex digits.                                                         *)
(***************************************************************************)
MAX_PER_TREE == 256
DEFAULT_FANOUT == 16
GIT_MODE_FILE == 33188
GIT_MODE_TREE == 16384

\* fanout=None
NoFanout == -1

MaxFree == 2
MaxChunks == 258
MaxLevel == 2

EmptyBlob == 0
ChunkBlobs == {1, 2}
BlobLen(blob) == CASE blob = 0 -> 0 [] blob = 1 -> 1 [] blob = 2 -> 17

makeblob(blob) == <<"blob", blob>>

NoRet == <<None, <<"none", 0>>>>

NoSplit ==
    [pc |-> "call", fanout |-> NoFanout, fed |-> <<>>, shal |-> <<>>,
     stacks |-> <<<<>>>>, trees |-> <<>>, blobs |-> {}, top |-> <<>>,
     ret |-> NoRet, exc |-> ""]

\* b'%x' % n
RECURSIVE hex(_)
hex(n) == IF n < 16 THEN <<n>> ELSE Append(hex(n \div 16), n % 16)

\* the name without the zero padding
hex0_nopad(vlen, n) == hex(n)

\* b'%0*x' % (vlen, n)
hex0(vlen, n) ==
    LET h == hex(n)
        pad == vlen - Len(h)
    IN IF pad <= 0 THEN h
       ELSE [i \in 1..vlen |-> IF i <= pad THEN 0 ELSE h[i - pad]]

\* the sum of the sizes of l[lo..hi], added up by halves
RECURSIVE sum_sizes(_, _, _)
sum_sizes(l, lo, hi) ==
    IF lo > hi THEN 0
    ELSE IF lo = hi THEN l[lo].size
    ELSE LET mid == (lo + hi) \div 2
         IN sum_sizes(l, lo, mid) + sum_sizes(l, mid + 1, hi)

\* the values ofs takes in the loop for l[lo..hi], ofs being base at l[lo]
RECURSIVE offsets(_, _, _, _)
offsets(l, lo, hi, base) ==
    IF lo > hi THEN <<>>
    ELSE IF lo = hi THEN <<base>>
    ELSE LET mid == (lo + hi) \div 2
         IN offsets(l, lo, mid, base)
            \o offsets(l, mid + 1, hi, base + sum_sizes(l, lo, mid))

_make_shalist(l) ==
    LET total == sum_sizes(l, 1, Len(l))
        vlen == Len(hex(total))
        ofs == offsets(l, 1, Len(l), 0)
    IN [shalist |-> [i \in 1..Len(l) |->
                        [mode |-> l[i].mode, name |-> hex0(vlen, ofs[i]), sha |-> l[i].sha]],
        total |-> total]

\* maketree stores the tree by its content
maketree(trees, shalist) ==
    IF \E k \in 1..Len(trees) : trees[k] = shalist
    THEN [trees |-> trees, oid |-> <<"tree", CHOOSE k \in 1..Len(trees) : trees[k] = shalist>>]
    ELSE [trees |-> Append(trees, shalist), oid |-> <<"tree", Len(trees) + 1>>]

\* stacks[i] of the code is stacks[i + 1] here
RECURSIVE _squish_loop(_, _, _)
_squish_loop(st, n, i) ==
    IF ~(i < n \/ Len(st.stacks[i + 1]) >= MAX_PER_TREE) THEN st
    ELSE LET s1 == IF Len(st.stacks) <= i + 1 THEN Append(st.stacks, <<>>) ELSE st.stacks
             cur == s1[i + 1]
             made == _make_shalist(cur)
             tree == maketree(st.trees, made.shalist)
             s2 == IF Len(cur) = 1 THEN [s1 EXCEPT ![i + 2] = @ \o cur]
                   ELSE IF cur # <<>>
                        THEN [s1 EXCEPT ![i + 2] =
                                 Append(@, [mode |-> GIT_MODE_TREE, sha |-> tree.oid,
                                            size |-> made.total])]
                        ELSE s1
         IN _squish_loop([stacks |-> [s2 EXCEPT ![i + 1] = <<>>],
                          trees |-> IF Len(cur) > 1 THEN tree.trees ELSE st.trees],
                         n, i + 1)

_squish(st, n) == _squish_loop(st, n, 0)

\* a tree is made of whatever the list holds
split_to_blob_or_tree_tree(h, shalist) ==
    LET tree == maketree(h.trees, shalist)
    IN [h EXCEPT !.pc = "done", !.trees = tree.trees, !.ret = <<GIT_MODE_TREE, tree.oid>>]

\* split_to_blob_or_tree once split_to_shalist has returned shalist
split_to_blob_or_tree(h, shalist) ==
    IF Len(shalist) = 1
    THEN [h EXCEPT !.pc = "done", !.ret = <<shalist[1].mode, shalist[1].sha>>]
    ELSE IF Len(shalist) = 0
    THEN [h EXCEPT !.pc = "done", !.blobs = @ \cup {EmptyBlob},
                   !.ret = <<GIT_MODE_FILE, makeblob(EmptyBlob)>>]
    ELSE LET tree == maketree(h.trees, shalist)
         IN [h EXCEPT !.pc = "done", !.trees = tree.trees,
                      !.ret = <<GIT_MODE_TREE, tree.oid>>]

\* split_to_shalist is entered: the generator is made, fanout is asserted
split_to_shalist_call ==
    /\ hs.pc = "call"
    /\ hs' = IF hs.fanout = 0
             THEN [hs EXCEPT !.pc = "done", !.exc = "AssertionError"]
             ELSE [hs EXCEPT !.pc = "loop"]
    /\ UNCHANGED <<sd, sv, call>>

\* one round of the for loop: the splitter yields a chunk and its level,
\* split_to_blobs stores the blob, the entry is appended and squished.
\* The first MaxFree chunks are any chunks, the chunks after them repeat
\* the chunk before.
split_to_shalist_chunk ==
    \E blob \in ChunkBlobs, level \in 0..MaxLevel :
        /\ hs.pc = "loop"
        /\ \/ Len(hs.fed) < MaxFree
           \/ /\ Len(hs.fed) > 0
              /\ Len(hs.fed) < MaxChunks
              /\ hs.fed[Len(hs.fed)] = [blob |-> blob, level |-> level]
        /\ LET ent == [mode |-> GIT_MODE_FILE, sha |-> makeblob(blob), size |-> BlobLen(blob)]
               h1 == [hs EXCEPT !.fed = Append(@, [blob |-> blob, level |-> level]),
                                !.blobs = @ \cup {blob}]
               sq == _squish([stacks |-> [hs.stacks EXCEPT ![1] = Append(@, ent)],
                              trees |-> hs.trees], level)
           IN hs' = IF hs.fanout = NoFanout
                    THEN [h1 EXCEPT !.shal = Append(@, ent)]
                    ELSE [h1 EXCEPT !.stacks = sq.stacks, !.trees = sq.trees]
        /\ UNCHANGED <<sd, sv, call>>

\* the splitter is exhausted: split_to_shalist returns the shalist of the
\* top stack and split_to_blob_or_tree returns
split_to_shalist_return ==
    /\ hs.pc = "loop"
    /\ LET sq == _squish([stacks |-> hs.stacks, trees |-> hs.trees], Len(hs.stacks) - 1)
           top == IF hs.fanout = NoFanout THEN hs.shal ELSE sq.stacks[Len(sq.stacks)]
           h1 == IF hs.fanout = NoFanout THEN [hs EXCEPT !.top = top]
                 ELSE [hs EXCEPT !.stacks = sq.stacks, !.trees = sq.trees, !.top = top]
       IN hs' = split_to_blob_or_tree(h1, _make_shalist(top).shalist)
    /\ UNCHANGED <<sd, sv, call>>

\* the blobs under the entries l[lo..hi], in tree order
RECURSIVE leaves(_, _, _, _)
leaves(trees, l, lo, hi) ==
    IF lo > hi THEN <<>>
    ELSE IF lo = hi
         THEN IF l[lo].sha[1] = "blob" THEN <<l[lo].sha[2]>>
              ELSE leaves(trees, trees[l[lo].sha[2]], 1, Len(trees[l[lo].sha[2]]))
    ELSE LET mid == (lo + hi) \div 2
         IN leaves(trees, l, lo, mid) \o leaves(trees, l, mid + 1, hi)

\* the length of the content under one entry
LeafSizes(trees, l) ==
    [i \in 1..Len(l) |->
        LET b == leaves(trees, l, i, i)
        IN [size |-> sum_sizes([j \in 1..Len(b) |-> [size |-> BlobLen(b[j])]], 1, Len(b))]]

\* a < b for byte strings
LexLess(a, b) ==
    \E i \in 1..(Len(a) + 1) :
        /\ i <= Len(b)
        /\ \A j \in 1..(i - 1) : a[j] = b[j]
        /\ i <= Len(a) => a[i] < b[i]

\* the chunks fed so far
FedBlobs == [i \in 1..Len(hs.fed) |-> hs.fed[i].blob]

\* the stacks from the highest to the lowest, one after the other
RECURSIVE StacksDown(_, _)
StacksDown(stacks, n) == IF n = 0 THEN <<>> ELSE stacks[n] \o StacksDown(stacks, n - 1)

Returned == hs.pc = "done" /\ hs.exc = ""

\* C17: split_to_blob_or_tree returns the (mode, oid) of the only entry of
\* the final top stack when there is exactly one (a one-chunk input returns
\* its blob and makes no tree), the empty blob as a file for an input
\* without chunks, and in every other case a tree: the tree of the entries
\* of the top stack.
C17_BlobOrTree ==
    Returned =>
        /\ Len(hs.top) = 1 => hs.ret = <<hs.top[1].mode, hs.top[1].sha>>
        /\ Len(hs.fed) = 1 =>
              /\ hs.ret = <<GIT_MODE_FILE, makeblob(hs.fed[1].blob)>>
              /\ hs.trees = <<>>
        /\ Len(hs.fed) = 0 =>
              /\ hs.ret = <<GIT_MODE_FILE, makeblob(EmptyBlob)>>
              /\ EmptyBlob \in hs.blobs
              /\ hs.trees = <<>>
        /\ Len(hs.fed) > 0 => Len(hs.top) > 0
        /\ Len(hs.top) > 1 =>
              /\ hs.ret[1] = GIT_MODE_TREE
              /\ hs.ret[2][1] = "tree"
              /\ hs.ret[2][2] \in 1..Len(hs.trees)
              /\ Len(hs.trees[hs.ret[2][2]]) = Len(hs.top)
              /\ \A i \in 1..Len(hs.top) :
                    /\ hs.trees[hs.ret[2][2]][i].mode = hs.top[i].mode
                    /\ hs.trees[hs.ret[2][2]][i].sha = hs.top[i].sha

\* several chunks were squished into one tree, which is the only entry of
\* the top stack and is returned as it is
C17_Witness ==
    /\ Returned
    /\ Len(hs.fed) > 1
    /\ Len(hs.top) = 1
    /\ hs.ret = <<GIT_MODE_TREE, hs.top[1].sha>>

\* C18: every tree made for a file, by _squish or by split_to_blob_or_tree,
\* has at most MAX_PER_TREE entries, for every fanout argument and with no
\* fanout passed.
C18_FanoutBounded ==
    \A k \in 1..Len(hs.trees) : Len(hs.trees[k]) <= MAX_PER_TREE

\* C19: every entry of every tree made is named by the hex offset at which
\* its content starts within the tree, zero-padded to the width of the
\* total, so the names have one length and strictly increase; the size
\* recorded with an entry is the length of the content under it; the blobs
\* under the stacks, and under the returned list, are the chunks fed, in
\* order.
C19_ContentPreserved ==
    /\ \A k \in 1..Len(hs.trees) :
          LET t == hs.trees[k]
              sizes == LeafSizes(hs.trees, t)
              total == sum_sizes(sizes, 1, Len(t))
              starts == offsets(sizes, 1, Len(t), 0)
          IN /\ \A i \in 1..Len(t) :
                   /\ Len(t[i].name) = Len(hex(total))
                   /\ \E pad \in 0..Len(t[i].name) :
                         /\ \A j \in 1..pad : t[i].name[j] = 0
                         /\ hex(starts[i]) = [j \in 1..(Len(t[i].name) - pad) |-> t[i].name[pad + j]]
             /\ \A i \in 1..(Len(t) - 1) : LexLess(t[i].name, t[i + 1].name)
    /\ \A n \in 1..Len(hs.stacks) :
          LET sizes == LeafSizes(hs.trees, hs.stacks[n])
          IN \A i \in 1..Len(hs.stacks[n]) : hs.stacks[n][i].size = sizes[i].size
    /\ (hs.pc = "loop" /\ hs.fanout # NoFanout) =>
          LET l == StacksDown(hs.stacks, Len(hs.stacks))
          IN leaves(hs.trees, l, 1, Len(l)) = FedBlobs
    /\ (hs.pc = "loop" /\ hs.fanout = NoFanout) =>
          leaves(hs.trees, hs.shal, 1, Len(hs.shal)) = FedBlobs
    /\ Returned =>
          /\ leaves(hs.trees, hs.top, 1, Len(hs.top)) = FedBlobs
          /\ Len(hs.fed) > 0 =>
                leaves(hs.trees, <<[sha |-> hs.ret[2]]>>, 1, 1) = FedBlobs

\* a tree of trees was returned whose names have more than one digit
C19_Witness ==
    /\ Returned
    /\ hs.ret[1] = GIT_MODE_TREE
    /\ \E i \in 1..Len(hs.trees[hs.ret[2][2]]) :
          /\ hs.trees[hs.ret[2][2]][i].mode = GIT_MODE_TREE
          /\ Len(hs.trees[hs.ret[2][2]][i].name) > 1
          /\ hs.trees[hs.ret[2][2]][i].name[1] # 0

(***************************************************************************)
(* The directory frames of tree.py.  save keeps a stack of StackDir        *)
(* frames: sd.frames[1] is Stack(), the last frame is the directory being  *)
(* saved.  Files are appended to the last frame; pop writes the frame's    *)
(* tree through the writer w and appends it to the parent.  sd.w holds the *)
(* objects written, each stored once: <<"obj", k>> is the k-th object,     *)
(* <<"ext", n>> the content of the n-th appended file.  A name is the      *)
(* sequence of its bytes.  The record splitter of a tree-split write is    *)
(* not part of the code modelled: what feed answers is any boolean.        *)
(***************************************************************************)
MaxAppends == 3
MaxPush == 2
MaxSplitItems == 4

\* Metadata()
EmptyMetadata == 1

DirNames == {<<97>>, <<99>>}
FileNames == {<<65>>, <<97>>, <<97, 45>>}

dot_bup == <<46, 98, 117, 112>>
dot_bupm == <<46, 98, 117, 112, 109>>
dot_bupd == <<46, 98, 117, 112, 100>>

NoTree == <<"none", 0>>

\* TreeItem(name, mode, gitmode, oid, meta); raw for a RawTreeItem
TreeItem(name, mode, gitmode, oid, meta) ==
    [name |-> name, mode |-> mode, gitmode |-> gitmode, oid |-> oid, meta |-> meta,
     raw |-> FALSE]

RawTreeItem(name, mode, gitmode, oid, meta) ==
    [name |-> name, mode |-> mode, gitmode |-> gitmode, oid |-> oid, meta |-> meta,
     raw |-> TRUE]

\* TreeItem.meta
item_meta(item) == IF item.meta # None THEN item.meta ELSE EmptyMetadata

\* git.mangle_name: a file stored as a chunk tree gets the suffix .bup
mangle_name(name, mode, gitmode) ==
    IF mode = GIT_MODE_FILE /\ gitmode = GIT_MODE_TREE THEN name \o dot_bup ELSE name

\* TreeItem.mangled_name, RawTreeItem.mangled_name
mangled_name(item) ==
    IF item.raw THEN item.name ELSE mangle_name(item.name, item.mode, item.gitmode)

\* git.shalist_item_sort_key: a tree sorts as if its name ended in '/'
shalist_item_sort_key(mode, name) ==
    IF mode = GIT_MODE_TREE THEN Append(name, 47) ELSE name

\* StackDir(name, meta, parent); the parent is the frame below
StackDir(name, meta) == [name |-> name, meta |-> meta, items |-> <<>>]

NoPop ==
    [written |-> FALSE, items |-> <<>>, meta |-> None, tree |-> NoTree, errors |-> <<>>,
     treesplit |-> FALSE]

\* stack = Stack()
NoStack ==
    [frames |-> <<StackDir(<<>>, None)>>, w |-> <<>>, errors |-> <<>>, last |-> NoPop,
     nappend |-> 0, npush |-> 0, use_treesplit |-> FALSE]

\* a writer that stores every object it is given
new_obj_again(w, obj) == [w |-> Append(w, obj), oid |-> <<"obj", Len(w) + 1>>]

\* the writer stores an object unless it holds it already
new_obj(w, obj) ==
    IF \E k \in 1..Len(w) : w[k] = obj
    THEN [w |-> w, oid |-> <<"obj", CHOOSE k \in 1..Len(w) : w[k] = obj>>]
    ELSE [w |-> Append(w, obj), oid |-> <<"obj", Len(w) + 1>>]

\* a writer that returns the id of a blob without storing the blob
new_blob_unwritten(w, data) == [w |-> w, oid |-> <<"obj", Len(w) + 1>>]

new_blob(w, data) == new_obj(w, [type |-> "blob", shalist |-> <<>>, data |-> data])

\* list.sort(key=...): stable, by the byte order of the keys
sort_by(l, key(_)) ==
    LET before(i, j) == LexLess(key(l[i]), key(l[j])) \/ (key(l[i]) = key(l[j]) /\ i < j)
        rank(i) == 1 + Cardinality({j \in 1..Len(l) : before(j, i)})
    IN [r \in 1..Len(l) |-> l[CHOOSE i \in 1..Len(l) : rank(i) = r]]

\* git.tree_encode: the entries of a tree object are stored in the order of
\* shalist_item_sort_key
tree_encode(shalist) ==
    sort_by(shalist, LAMBDA entry : shalist_item_sort_key(entry.mode, entry.name))

\* a tree object that keeps the entries in the order given
tree_encode_unsorted(shalist) == shalist

new_tree(w, shalist) ==
    new_obj(w, [type |-> "tree", shalist |-> tree_encode(shalist), data |-> <<>>])

\* _write_tree: the .bupm of the directory (its metadata stream is shorter
\* than a chunk and becomes one blob), then the tree
\* _write_tree that writes a .bupm whatever omit_meta says
_write_tree_keep_meta(w, dir_meta, items, omit_meta) ==
    LET files == SelectSeq(items, LAMBDA entry : entry.mode # GIT_MODE_TREE)
        metadata == new_blob(w, <<IF dir_meta = None THEN EmptyMetadata ELSE dir_meta>>
                                \o [i \in 1..Len(files) |-> item_meta(files[i])])
    IN new_tree(metadata.w,
                <<[mode |-> GIT_MODE_FILE, name |-> dot_bupm, oid |-> metadata.oid]>>
                \o [i \in 1..Len(items) |->
                       [mode |-> items[i].gitmode, name |-> mangled_name(items[i]),
                        oid |-> items[i].oid]])

_write_tree(w, dir_meta, items, omit_meta) ==
    LET files == SelectSeq(items, LAMBDA entry : entry.mode # GIT_MODE_TREE)
        metalist == sort_by(<<[key |-> <<>>, meta |-> IF dir_meta = None THEN EmptyMetadata
                                                      ELSE dir_meta]>>
                            \o [i \in 1..Len(files) |->
                                   [key |-> shalist_item_sort_key(files[i].mode, files[i].name),
                                    meta |-> item_meta(files[i])]],
                            LAMBDA x : x.key)
        metadata == new_blob(w, [i \in 1..Len(metalist) |-> metalist[i].meta])
        entries == [i \in 1..Len(items) |->
                       [mode |-> items[i].gitmode, name |-> mangled_name(items[i]),
                        oid |-> items[i].oid]]
    IN IF omit_meta THEN new_tree(w, entries)
       ELSE new_tree(metadata.w,
                     <<[mode |-> GIT_MODE_FILE, name |-> dot_bupm, oid |-> metadata.oid]>>
                     \o entries)

\* _tree_names_abbreviate for one name: the name loses its last byte while
\* the trie node above has a single child and the rest is a valid name
RECURSIVE abbreviate(_, _)
abbreviate(names, out) ==
    LET candidate == SubSeq(out, 1, Len(out) - 1)
        below == {names[i][Len(out)] : i \in {i \in 1..Len(names) :
                     /\ Len(names[i]) >= Len(out)
                     /\ SubSeq(names[i], 1, Len(out) - 1) = candidate}}
        keys == Cardinality(below) + (IF candidate = <<>> THEN 0 ELSE 1)
    IN IF keys > 2 THEN out
       ELSE IF candidate \in {<<>>, <<46>>, <<46, 46>>} THEN out
       ELSE abbreviate(names, candidate)

_tree_names_abbreviate(names) == [i \in 1..Len(names) |-> abbreviate(names, names[i])]

\* _tree_entries_abbreviate: the items with their names abbreviated
_tree_entries_abbreviate(items) ==
    LET outnames == _tree_names_abbreviate([i \in 1..Len(items) |-> items[i].name])
    IN [i \in 1..Len(items) |-> [items[i] EXCEPT !.name = outnames[i]]]

\* a sentinel name that does not tell the level
bupd_name_nolevel(level) == <<48>> \o dot_bupd

\* b'%d.bupd' % level
bupd_name(level) == <<48 + level>> \o dot_bupd

\* what h.feed answered for entry idx (from 1) of the given level
fed_split(splits, level, idx) ==
    /\ level + 1 \in DOMAIN splits
    /\ idx \in DOMAIN splits[level + 1]
    /\ splits[level + 1][idx]

RECURSIVE _write_split_tree(_, _, _, _, _)
RECURSIVE _write_split_tree_loop(_, _, _, _, _, _, _, _)

\* the loop with a flush at every split point, whatever the subtree holds
_write_split_tree_loop_any(w, dir_meta, items, level, splits, idx, subtree, newtree) ==
    IF idx > Len(items) THEN _write_split_tree(w, dir_meta, newtree, level + 1, splits)
    ELSE LET sub == Append(subtree, items[idx])
         IN IF fed_split(splits, level, idx) \/ idx = Len(items)
            THEN LET all_in_one_tree == newtree = <<>> /\ idx = Len(items)
                     sentinel == new_blob(w, <<>>)
                     w1 == IF all_in_one_tree /\ level > 0 THEN sentinel.w ELSE w
                     sub1 == IF all_in_one_tree /\ level > 0
                             THEN Append(sub, RawTreeItem(bupd_name(level), GIT_MODE_FILE,
                                                          GIT_MODE_FILE, sentinel.oid, None))
                             ELSE sub
                     meta == IF all_in_one_tree THEN dir_meta ELSE None
                     omit_meta == level > 0 /\ ~all_in_one_tree
                 IN Bind(_write_tree(w1, meta, sub1, omit_meta), LAMBDA tree :
                    IF all_in_one_tree THEN tree
                    ELSE _write_split_tree_loop(tree.w, dir_meta, items, level, splits,
                             idx + 1, <<>>,
                             Append(newtree, RawTreeItem(sub1[1].name, GIT_MODE_TREE,
                                                         GIT_MODE_TREE, tree.oid, None))))
            ELSE _write_split_tree_loop(w, dir_meta, items, level, splits, idx + 1, sub,
                                        newtree)

\* the for loop of _write_split_tree at entry idx
_write_split_tree_loop(w, dir_meta, items, level, splits, idx, subtree, newtree) ==
    IF idx > Len(items) THEN _write_split_tree(w, dir_meta, newtree, level + 1, splits)
    ELSE LET sub == Append(subtree, items[idx])
         IN IF (Len(sub) > 1 /\ fed_split(splits, level, idx)) \/ idx = Len(items)
            THEN LET all_in_one_tree == newtree = <<>> /\ idx = Len(items)
                     sentinel == new_blob(w, <<>>)
                     w1 == IF all_in_one_tree /\ level > 0 THEN sentinel.w ELSE w
                     sub1 == IF all_in_one_tree /\ level > 0
                             THEN Append(sub, RawTreeItem(bupd_name(level), GIT_MODE_FILE,
                                                          GIT_MODE_FILE, sentinel.oid, None))
                             ELSE sub
                     meta == IF all_in_one_tree THEN dir_meta ELSE None
                     omit_meta == level > 0 /\ ~all_in_one_tree
                 IN Bind(_write_tree(w1, meta, sub1, omit_meta), LAMBDA tree :
                    IF all_in_one_tree THEN tree
                    ELSE _write_split_tree_loop(tree.w, dir_meta, items, level, splits,
                             idx + 1, <<>>,
                             Append(newtree, RawTreeItem(sub1[1].name, GIT_MODE_TREE,
                                                         GIT_MODE_TREE, tree.oid, None))))
            ELSE _write_split_tree_loop(w, dir_meta, items, level, splits, idx + 1, sub,
                                        newtree)

_write_split_tree(w, dir_meta, items, level, splits) ==
    IF items = <<>> THEN _write_tree(w, dir_meta, items, FALSE)
    ELSE _write_split_tree_loop(w, dir_meta,
             IF level > 0 THEN _tree_entries_abbreviate(items) ELSE items,
             level, splits, 1, <<>>, <<>>)

\* StackDir.namestack joined by '/', with '/' at the end
RECURSIVE parent_path(_, _)
parent_path(frames, n) ==
    IF n < 2 THEN <<>>
    ELSE IF n = 2 THEN Append(frames[2].name, 47)
    ELSE parent_path(frames, n - 1) \o Append(frames[n].name, 47)

\* _clean that keeps every item
_clean_keep_all(items, path) == [items |-> items, errors |-> <<>>]

\* _clean: the items whose name was not seen before, an error for the others
_clean(items, path) ==
    LET seen(i) == \E j \in 1..(i - 1) : items[j].name = items[i].name
        idx == SelectSeq([i \in 1..Len(items) |-> i], LAMBDA i : ~seen(i))
        dup == SelectSeq([i \in 1..Len(items) |-> i], LAMBDA i : seen(i))
    IN [items |-> [k \in 1..Len(idx) |-> items[idx[k]]],
        errors |-> [k \in 1..Len(dup) |-> [name |-> items[dup[k]].name, path |-> path]]]

\* StackDir._write
StackDir_write(w, frames, use_treesplit, splits) ==
    LET self == frames[Len(frames)]
        cleaned == _clean(self.items, parent_path(frames, Len(frames)))
        items == sort_by(cleaned.items, LAMBDA x : x.name)
    IN Bind(IF ~use_treesplit THEN _write_tree(w, self.meta, items, FALSE)
            ELSE _write_split_tree(w, self.meta, items, 0, splits), LAMBDA tree :
       [w |-> tree.w, oid |-> tree.oid, errors |-> cleaned.errors])

\* stack.push(name, meta)
push ==
    \E name \in DirNames, meta \in {2} :
        /\ sd.npush < MaxPush
        /\ sd' = [sd EXCEPT !.frames = Append(@, StackDir(name, meta)), !.npush = @ + 1]
        /\ UNCHANGED <<hs, sv, call>>

\* stack.append(name, mode, gitmode, oid, meta) of a file saved as a blob or
\* as a chunk tree; the n-th file has content n and metadata n + 1
append ==
    \E name \in FileNames, gitmode \in {GIT_MODE_FILE, GIT_MODE_TREE} :
        /\ sd.nappend < MaxAppends
        /\ gitmode = GIT_MODE_TREE => name = <<97>>
        /\ Len(sd.frames) > 1
        /\ sd' = [sd EXCEPT !.frames[Len(sd.frames)].items =
                                Append(@, TreeItem(name, GIT_MODE_FILE, gitmode,
                                                   <<"ext", sd.nappend + 1>>,
                                                   sd.nappend + 2)),
                            !.nappend = @ + 1]
        /\ UNCHANGED <<hs, sv, call>>

\* StackDir.pop(w, override_tree, override_meta, use_treesplit) on the stack
\* s: the tree of the last frame, written or overridden, is appended to the
\* frame below
StackDir_pop(s, override_tree, override_meta, use_treesplit, splits) ==
    LET n == Len(s.frames)
        frames == IF override_meta # None
                  THEN [s.frames EXCEPT ![n].meta = override_meta]
                  ELSE s.frames
        popped(w, tree, errors) ==
            [s EXCEPT
                !.frames = [SubSeq(frames, 1, n - 1) EXCEPT ![n - 1].items =
                               Append(@, TreeItem(frames[n].name, GIT_MODE_TREE,
                                                  GIT_MODE_TREE, tree, None))],
                !.w = w,
                !.errors = @ \o errors,
                !.last = [written |-> override_tree = NoTree,
                          items |-> frames[n].items, meta |-> frames[n].meta,
                          tree |-> tree, errors |-> errors,
                          treesplit |-> use_treesplit]]
    IN IF override_tree = NoTree
       THEN Bind(StackDir_write(s.w, frames, use_treesplit, splits),
                 LAMBDA wr : popped(wr.w, wr.oid, wr.errors))
       ELSE popped(s.w, override_tree, <<>>)

\* stack.pop(w, override_tree, override_meta, use_treesplit) as save calls
\* it: use_treesplit is the bup.treesplit of the repository, override_tree
\* the tree of a directory saved before, override_meta the metadata of a
\* root that several paths collide in
pop ==
    \E override_tree \in {NoTree, <<"ext", 0>>}, override_meta \in {None, EmptyMetadata},
       use_treesplit \in {sd.use_treesplit},
       s0 \in [1..MaxSplitItems -> BOOLEAN], s1 \in [1..(MaxSplitItems \div 2) -> BOOLEAN] :
        /\ Len(sd.frames) > 1
        /\ override_tree # NoTree => Len(sd.frames) > 2
        /\ override_meta # None => Len(sd.frames) = 2
        /\ LET names == {sd.frames[Len(sd.frames)].items[i].name :
                             i \in 1..Len(sd.frames[Len(sd.frames)].items)}
               asked == IF use_treesplit /\ override_tree = NoTree
                        THEN Cardinality(names) ELSE 0
           IN \* an answer of feed that the code does not look at is FALSE
              /\ \A i \in DOMAIN s0 : s0[i] => 1 < i /\ i < asked
              /\ \A i \in DOMAIN s1 : s1[i] => 1 < i /\ i < (asked + 1) \div 2
        /\ sd' = StackDir_pop(sd, override_tree, override_meta, use_treesplit, <<s0, s1>>)
        /\ UNCHANGED <<hs, sv, call>>

\* the level named by the sentinel entry of a top tree, 0 without one
split_depth(shalist) ==
    IF \E d \in 1..9 : \E i \in 1..Len(shalist) : shalist[i].name = bupd_name(d)
    THEN CHOOSE d \in 1..9 : \E i \in 1..Len(shalist) : shalist[i].name = bupd_name(d)
    ELSE 0

\* the entries of a directory read back from its tree: those of the tree
\* itself, or of its subtrees depth levels down; .bupm and the sentinel are
\* not entries
RECURSIVE leaf_entries(_, _, _)
RECURSIVE leaf_entries_of(_, _, _, _)
leaf_entries_of(w, own, depth, i) ==
    IF i > Len(own) THEN <<>>
    ELSE leaf_entries(w, own[i].oid, depth) \o leaf_entries_of(w, own, depth, i + 1)

leaf_entries(w, oid, depth) ==
    LET own == SelectSeq(w[oid[2]].shalist,
                         LAMBDA e : e.name # dot_bupm /\ \A d \in 1..9 : e.name # bupd_name(d))
    IN IF depth = 0 THEN own ELSE leaf_entries_of(w, own, depth - 1, 1)

PoppedEntries ==
    leaf_entries(sd.w, sd.last.tree, split_depth(sd.w[sd.last.tree[2]].shalist))

\* the items of the popped frame that were the first of their name
FirstItems ==
    {i \in 1..Len(sd.last.items) :
        \A j \in 1..(i - 1) : sd.last.items[j].name # sd.last.items[i].name}

\* C20: the tree written on pop holds, for each distinct name appended to
\* the frame, exactly the first entry appended under that name and nothing
\* else; every later entry of a name seen before is dropped with exactly
\* one error; in a flat tree the .bupm holds the directory's metadata and
\* that of the kept files.
C20_FirstOccurrenceWins ==
    sd.last.written =>
        LET its == sd.last.items
            entry(i) == [mode |-> its[i].gitmode, name |-> mangled_name(its[i]),
                         oid |-> its[i].oid]
        IN /\ Len(PoppedEntries) = Cardinality(FirstItems)
           /\ \A i \in FirstItems : \E k \in 1..Len(PoppedEntries) : PoppedEntries[k] = entry(i)
           /\ \A k \in 1..Len(PoppedEntries) : \E i \in FirstItems : PoppedEntries[k] = entry(i)
           /\ Len(sd.last.errors) = Len(its) - Cardinality(FirstItems)
           /\ \A i \in 1..Len(its) :
                 Cardinality({k \in 1..Len(sd.last.errors) :
                                 sd.last.errors[k].name = its[i].name})
                 = Cardinality({j \in 1..Len(its) : its[j].name = its[i].name}) - 1
           /\ ~sd.last.treesplit =>
                 LET bupm == sd.w[sd.w[sd.last.tree[2]].shalist[1].oid[2]].data
                     files == {i \in FirstItems : its[i].mode # GIT_MODE_TREE}
                 IN /\ sd.w[sd.last.tree[2]].shalist[1].name = dot_bupm
                    /\ Len(bupm) = 1 + Cardinality(files)
                    /\ \A i \in files : \E k \in 2..Len(bupm) : bupm[k] = item_meta(its[i])

\* a frame with a file appended twice under one name, a file of another
\* name and a subdirectory was written as a split tree: one error, three
\* entries
C20_Witness ==
    /\ sd.last.written
    /\ sd.last.treesplit
    /\ split_depth(sd.w[sd.last.tree[2]].shalist) > 0
    /\ Len(sd.last.errors) = 1
    /\ Len(PoppedEntries) = 3
    /\ \E i \in 1..Len(sd.last.items) : sd.last.items[i].mode = GIT_MODE_TREE

\* bytes.startswith
startswith(a, b) == Len(b) <= Len(a) /\ SubSeq(a, 1, Len(b)) = b

\* no function is called on its own
NoCall == [f |-> "", args |-> <<>>, ret |-> <<>>, done |-> FALSE]

\* the names a list to abbreviate is made of: a ab abc b .a ..a
MaxNames == 3
AbbrevNames == {<<97>>, <<97, 98>>, <<97, 98, 99>>, <<98>>, <<46, 97>>, <<46, 46, 97>>}

\* a list of pairwise distinct names is put together
abbreviate_name ==
    \E name \in AbbrevNames :
        /\ call.f = "_tree_names_abbreviate"
        /\ ~call.done
        /\ Len(call.args) < MaxNames
        /\ \A i \in 1..Len(call.args) : call.args[i] # name
        /\ call' = [call EXCEPT !.args = Append(@, name)]
        /\ UNCHANGED <<hs, sd, sv>>

\* outnames = _tree_names_abbreviate(names)
abbreviate_call ==
    /\ call.f = "_tree_names_abbreviate"
    /\ ~call.done
    /\ call' = [call EXCEPT !.ret = _tree_names_abbreviate(call.args), !.done = TRUE]
    /\ UNCHANGED <<hs, sd, sv>>

\* C25: for a list of pairwise distinct names _tree_names_abbreviate
\* returns pairwise distinct names, each a non-empty prefix of its name
\* that is neither '.' nor '..', and each the shortest prefix of its name
\* that no other name of the list starts with.
C25_Abbreviation ==
    (call.f = "_tree_names_abbreviate" /\ call.done) =>
        LET names == call.args
            out == call.ret
            unique(i, n) == \A j \in 1..Len(names) :
                                j # i => ~startswith(names[j], SubSeq(names[i], 1, n))
        IN /\ Len(out) = Len(names)
           /\ \A i, j \in 1..Len(out) : i # j => out[i] # out[j]
           /\ \A i \in 1..Len(out) :
                 /\ out[i] # <<>>
                 /\ out[i] \notin {<<46>>, <<46, 46>>}
                 /\ startswith(names[i], out[i])
                 /\ unique(i, Len(out[i]))
                 /\ \A n \in 1..(Len(out[i]) - 1) :
                       unique(i, n) => SubSeq(names[i], 1, n) \in {<<46>>, <<46, 46>>}

\* what holds of the names returned: each is a non-empty prefix of its
\* name and neither '.' nor '..'
C25_Prefixes ==
    (call.f = "_tree_names_abbreviate" /\ call.done) =>
        /\ Len(call.ret) = Len(call.args)
        /\ \A i \in 1..Len(call.ret) :
              /\ call.ret[i] # <<>>
              /\ call.ret[i] \notin {<<46>>, <<46, 46>>}
              /\ startswith(call.args[i], call.ret[i])

\* the sort keys of the entries read back from the tree of the last pop
PoppedKeys ==
    [k \in 1..Len(PoppedEntries) |->
        shalist_item_sort_key(PoppedEntries[k].mode, PoppedEntries[k].name)]

\* C24: the entries read from the tree written by pop, through the leaf
\* subtrees of a split tree in tree order, are the entries of the frame,
\* each once, in the order of shalist_item_sort_key.
C24_TreeOrder ==
    sd.last.written =>
        /\ Len(PoppedEntries) = Cardinality(FirstItems)
        /\ \A k \in 1..(Len(PoppedKeys) - 1) : LexLess(PoppedKeys[k], PoppedKeys[k + 1])

\* C24 for a tree that is not split
C24_FlatTreeOrder ==
    (sd.last.written /\ ~sd.last.treesplit) =>
        \A k \in 1..(Len(PoppedKeys) - 1) : LexLess(PoppedKeys[k], PoppedKeys[k + 1])

(***************************************************************************)
(* The main loop of save (cmd/save-cmd.py).  The index filter yields the   *)
(* entries under the paths given to save, in the order of the index: by    *)
(* descending name, a directory after everything in it, and nothing below  *)
(* a directory that is saved already.  save is run without --smaller,      *)
(* --strip and --graft and every entry exists, so dirp is the list of the  *)
(* path components of the entry's directory below a root named ''.  The    *)
(* frames are those of sd, and sd.w holds the objects written.  save hands *)
(* the repository to StackDir.pop as the writer w; tree.py calls           *)
(* w.new_blob and w.new_tree, which LocalRepo and EncryptedRepo do not     *)
(* define: sv.provides tells whether the repository class in use does      *)
(* (repo/remote.py is not part of the sources read).                       *)
(***************************************************************************)
MaxRuns == 2
MaxErrors == 2

name_a == <<97>>
name_am == <<97, 45>>
name_d == <<100>>
name_f == <<102>>

\* metadata.from_path of a directory and of a file
DirMetadata == 2
FileMetadata == 3

\* the index: /a/f /a/d/f /a/d/ /a/ /a-/f /a-/ /
IndexEntries ==
    {[dir |-> <<>>, file |-> <<>>],
     [dir |-> <<name_a>>, file |-> <<>>],
     [dir |-> <<name_a>>, file |-> name_f],
     [dir |-> <<name_a, name_d>>, file |-> <<>>],
     [dir |-> <<name_a, name_d>>, file |-> name_f],
     [dir |-> <<name_am>>, file |-> <<>>],
     [dir |-> <<name_am>>, file |-> name_f]}

\* the paths that may be given to save: / /a/f /a/d/ /a-/
SavePaths ==
    {[dir |-> <<>>, file |-> <<>>],
     [dir |-> <<name_a>>, file |-> name_f],
     [dir |-> <<name_a, name_d>>, file |-> <<>>],
     [dir |-> <<name_am>>, file |-> <<>>]}

RECURSIVE join_path(_)
join_path(dir) == IF dir = <<>> THEN <<>> ELSE <<47>> \o dir[1] \o join_path(Tail(dir))

\* ent.name: the path of the entry, a directory's ends in '/'
ent_name(e) == join_path(e.dir) \o <<47>> \o e.file

\* [x[0] for x in path_components(dir)]
path_components(e) == <<<<>>>> \o e.dir

\* a > b of two lists of byte strings
list_gt(a, b) ==
    \E i \in 1..Len(a) :
        /\ i <= Len(b) + 1
        /\ \A j \in 1..(i - 1) : a[j] = b[j]
        /\ i = Len(b) + 1 \/ LexLess(b[i], a[i])

\* stack.namestack
namestack(frames) == [i \in 1..(Len(frames) - 1) |-> frames[i + 1].name]

NoIndex == [e \in IndexEntries |-> [valid |-> FALSE, sha |-> NoTree]]

NoStep == [acted |-> FALSE, dirp |-> <<>>, namestack |-> <<>>]

NoSave ==
    [phase |-> "idle", run |-> 0, extra |-> {}, provides |-> FALSE, last |-> <<255>>,
     lastskip_name |-> <<>>, index |-> NoIndex, exc |-> "", step |-> NoStep,
     skipped |-> {}, finished |-> {}, errors |-> 0, nerrors |-> 0, ref |-> NoTree, commits |-> <<>>, wlen |-> 0]

\* repo.exists(sha)
save_exists(x, sha) == sha[1] = "obj" /\ sha[2] <= Len(x.sd.w)

\* already_saved(ent): the tree or blob of a valid entry, False otherwise
already_saved(x, e) ==
    IF x.sv.index[e].valid /\ save_exists(x, x.sv.index[e].sha) THEN x.sv.index[e].sha
    ELSE NoTree

\* r.filter(extra, wantrecurse=wantrecurse_during): the entries at or below
\* a path of extra, none of them inside a directory saved already
covered(x, e) ==
    \E p \in x.sv.extra :
        \/ p = e
        \/ p.file = <<>> /\ startswith(e.dir, p.dir)

filtered(x, e) ==
    /\ covered(x, e)
    /\ \A t \in IndexEntries :
          (t.file = <<>> /\ t # e /\ covered(x, t) /\ startswith(e.dir, t.dir))
              => already_saved(x, t) = NoTree

\* the entries still to come: those of a smaller name than the last one
ToCome(x) ==
    {e \in IndexEntries : filtered(x, e) /\ LexLess(ent_name(e), x.sv.last)}

\* the next entry the filter yields, if there is one
next_entry(x) ==
    Bind(ToCome(x), LAMBDA T :
         {e \in T : \A o \in T : o = e \/ LexLess(ent_name(o), ent_name(e))})

\* stack.pop(repo, ...) in save: the writer is the repository
save_pop(x, override_tree, override_meta) ==
    IF x.sv.exc # "" THEN x
    ELSE IF override_tree = NoTree /\ ~x.sv.provides
    THEN [x EXCEPT !.sv.exc = "AttributeError"]
    ELSE [x EXCEPT !.sd = StackDir_pop(x.sd, override_tree, override_meta,
                                       x.sd.use_treesplit, x.splits)]

\* while list(stack.namestack) > [x[0] for x in dirp]: pop
RECURSIVE pop_finished(_, _)
pop_finished(x, names) ==
    IF x.sv.exc = "" /\ list_gt(namestack(x.sd.frames), names)
    THEN pop_finished(save_pop(x, NoTree, None), names)
    ELSE x

\* for path_component in dirp[len(stack):]: push; a directory whose
\* metadata cannot be read is pushed with empty metadata
RECURSIVE push_missing(_, _, _)
push_missing(x, names, dirfails) ==
    LET i == Len(x.sd.frames)
    IN IF i > Len(names) THEN x
       ELSE push_missing(
                [x EXCEPT !.sd.frames =
                              Append(@, StackDir(names[i], IF i \in dirfails THEN EmptyMetadata
                                                           ELSE DirMetadata)),
                          !.sd.npush = @ + 1,
                          !.sv.errors = IF i \in dirfails THEN @ + 1 ELSE @,
                          !.sv.lastskip_name = IF i \in dirfails THEN names[i] ELSE @,
                          !.sv.skipped = IF i \in dirfails
                                         THEN @ \cup {join_path(SubSeq(names, 2, i)) \o <<47>>}
                                         ELSE @],
                names, dirfails)

\* the pop and push step of one entry
align(x, names, dirfails) ==
    Bind(pop_finished(x, names), LAMBDA y :
         IF y.sv.exc # "" THEN y
         ELSE Bind(push_missing(y, names, dirfails), LAMBDA z :
                   [z EXCEPT !.sv.step = [acted |-> TRUE, dirp |-> names,
                                          namestack |-> namestack(z.sd.frames)]]))

\* if not file: the entry of a directory ends the directory
save_dir(x, e) ==
    IF Len(x.sd.frames) - 1 = 1 THEN x
    ELSE LET oldtree == already_saved(x, e)
         IN Bind(save_pop(x, oldtree, None), LAMBDA y :
                 IF y.sv.exc # "" \/ oldtree # NoTree THEN y
                 ELSE IF y.sv.lastskip_name # <<>>
                         /\ startswith(y.sv.lastskip_name, ent_name(e))
                 THEN [y EXCEPT !.sv.index[e] = [valid |-> FALSE, sha |-> NoTree],
                                !.sv.finished = @ \cup {e}]
                 ELSE [y EXCEPT !.sv.index[e] = [valid |-> TRUE, sha |-> y.sd.last.tree],
                                !.sv.finished = @ \cup {e}])

\* a regular file: saved before, or read and written now
save_file(x, e, readfails, metafails) ==
    LET appended(y, oid, meta) ==
            [y EXCEPT !.sd.frames[Len(y.sd.frames)].items =
                          Append(@, TreeItem(e.file, GIT_MODE_FILE, GIT_MODE_FILE, oid, meta)),
                      !.sd.nappend = @ + 1]
    IN IF already_saved(x, e) # NoTree
       THEN appended(x, x.sv.index[e].sha, FileMetadata)
       ELSE IF readfails
       THEN [x EXCEPT !.sv.errors = @ + 1, !.sv.lastskip_name = ent_name(e),
                      !.sv.skipped = @ \cup {ent_name(e)}]
       ELSE Bind(new_blob(x.sd.w, ent_name(e)), LAMBDA b :
                 appended([x EXCEPT !.sd.w = b.w,
                                    !.sv.index[e] = [valid |-> TRUE, sha |-> b.oid],
                                    !.sv.errors = IF metafails THEN @ + 1 ELSE @,
                                    !.sv.lastskip_name = IF metafails THEN ent_name(e) ELSE @],
                          b.oid, IF metafails THEN EmptyMetadata ELSE FileMetadata))

\* what the record splitter answers in the pops of one turn of the loop:
\* a boundary after the second entry of a directory or none
feed_answers(split) ==
    <<[i \in 1..MaxSplitItems |-> split /\ i = 2], [i \in 1..(MaxSplitItems \div 2) |-> FALSE]>>

\* one turn of the loop over the index
save_entry ==
    /\ sv.phase = "loop"
    /\ \E e \in next_entry([sd |-> sd, sv |-> sv]) :
       \E names \in {path_components(e)}, saved \in {already_saved([sd |-> sd, sv |-> sv], e)} :
       \E readfails \in BOOLEAN, metafails \in BOOLEAN, dirfails \in SUBSET (2..Len(names)),
          split \in BOOLEAN :
          LET x == [sd |-> sd, sv |-> sv, splits |-> feed_answers(split)]
          IN /\ split => sd.use_treesplit /\ e.file = <<>>
             /\ readfails => e.file # <<>> /\ saved = NoTree
             /\ metafails => e.file # <<>> /\ saved = NoTree /\ ~readfails
             /\ \A i \in dirfails : i >= Len(sd.frames)
             /\ sv.nerrors + Cardinality(dirfails) + (IF readfails \/ metafails THEN 1 ELSE 0)
                    <= MaxErrors
             /\ \E z \in {Bind(align([x EXCEPT !.sv.last = ent_name(e), !.sv.step = NoStep],
                                      names, dirfails), LAMBDA y :
                                IF y.sv.exc # "" THEN y
                                ELSE IF e.file = <<>> THEN save_dir(y, e)
                                ELSE save_file(y, e, readfails, metafails))} :
                   /\ sd' = z.sd
                   /\ sv' = [z.sv EXCEPT !.phase = IF z.sv.exc # "" THEN "failed" ELSE @,
                                         !.nerrors = @ + z.sv.errors - sv.errors]
    /\ UNCHANGED <<hs, call>>

\* repo.write_commit(tree, oldref, ..., date, ...)
commit_obj(tree, parent, date) ==
    [type |-> "commit", shalist |-> <<[mode |-> date, name |-> <<>>, oid |-> tree],
                                      [mode |-> date, name |-> <<>>, oid |-> parent]>>,
     data |-> <<>>]

\* after the loop: the frames left are popped, the root's tree is
\* committed and the ref moved
RECURSIVE pop_to_root(_)
pop_to_root(x) ==
    IF x.sv.exc = "" /\ Len(x.sd.frames) > 2 THEN pop_to_root(save_pop(x, NoTree, None))
    ELSE x

save_finish ==
    /\ sv.phase = "loop"
    /\ next_entry([sd |-> sd, sv |-> sv]) = {}
    /\ \E split \in BOOLEAN :
       /\ split => sd.use_treesplit
       /\ \E z \in {save_pop(pop_to_root([sd |-> sd, sv |-> [sv EXCEPT !.step = NoStep],
                                            splits |-> feed_answers(split)]),
                               NoTree, None)} :
             IF z.sv.exc # ""
             THEN /\ sd' = z.sd
                  /\ sv' = [z.sv EXCEPT !.phase = "failed"]
             ELSE \E c \in {new_obj(z.sd.w, commit_obj(z.sd.last.tree, z.sv.ref, z.sv.run))} :
                     /\ sd' = [z.sd EXCEPT !.w = c.w]
                     /\ sv' = [z.sv EXCEPT !.phase = "done", !.ref = c.oid,
                                           !.commits = Append(@, c.oid)]
    /\ UNCHANGED <<hs, call>>

\* save is run again on the same index and repository
save_again ==
    /\ sv.phase = "done"
    /\ sv.run < MaxRuns
    /\ sd' = [NoStack EXCEPT !.w = sd.w, !.use_treesplit = sd.use_treesplit]
    /\ sv' = [sv EXCEPT !.phase = "loop", !.run = @ + 1, !.last = <<255>>,
                        !.lastskip_name = <<>>, !.step = NoStep, !.skipped = {}, !.finished = {},
                        !.errors = 0, !.wlen = Len(sd.w)]
    /\ UNCHANGED <<hs, call>>

\* the paths skipped in this run because reading them failed, and the
\* directories finished in this run that they lie in
Owed == {t \in sv.finished : \E p \in sv.skipped : startswith(p, ent_name(t))}

\* the items of the frames and of the trees written that name the file e
InFrames(e) ==
    \E i \in 1..Len(sd.frames) : \E k \in 1..Len(sd.frames[i].items) :
        /\ sd.frames[i].items[k].name = e.file
        /\ sd.frames[i].items[k].oid \in {new_blob(sd.w, ent_name(e)).oid}

\* C22: a file that is skipped because reading it fails is not added to a
\* frame, and the index entry of every directory above a skipped path that
\* is finished afterwards is invalidated, so that the path is tried again
\* in the next run; a directory whose metadata cannot be read when it is
\* entered counts as skipped.
C22_SkipInvalidates ==
    /\ \A t \in Owed : ~sv.index[t].valid
    /\ \A e \in IndexEntries : (e.file # <<>> /\ ent_name(e) \in sv.skipped) => ~InFrames(e)

\* the tree of the k-th commit of the save runs
commit_tree(k) == sd.w[sv.commits[k][2]].shalist[1].oid

\* save ran twice on the same index without a failed read
SavedTwice == sv.run = 2 /\ sv.phase = "done" /\ sv.nerrors = 0

NamedOids(w, k) == {w[k].shalist[i].oid : i \in 1..Len(w[k].shalist)} \ {NoTree}

\* the objects that were in the repository when the k-th one was written
PresentBefore(k) == {<<"obj", j>> : j \in 1..(k - 1)}

ChunkTreesAfterChildren ==
    \A k \in 1..Len(hs.trees) : \A i \in 1..Len(hs.trees[k]) :
        \/ hs.trees[k][i].sha[1] = "blob" /\ hs.trees[k][i].sha[2] \in hs.blobs
        \/ hs.trees[k][i].sha[1] = "tree" /\ hs.trees[k][i].sha[2] < k

\* C21: after the pop and push step of an entry the namestack is the list
\* of the archive names of the entry's dirp, so the entry is appended to
\* the frame of its own directory.
C21_StackAligned ==
    sv.step.acted => sv.step.namestack = sv.step.dirp

(***************************************************************************)
(* _write_split_tree on its own: it is called on a new writer with the     *)
(* sorted entries of a directory, files and at most one subdirectory, and  *)
(* with what the record splitter answers for each entry of the first two   *)
(* levels (a directory of up to 8 entries has at most 2 entries on the     *)
(* third level, where no answer is acted on).                              *)
(***************************************************************************)
MaxSplitNames == 6

HalfUp(n) == (n + 1) \div 2

\* the names a ab c d e ... in the order of StackDir._write
SplitName(i) == IF i = 2 THEN <<97, 98>> ELSE <<96 + i>>

\* entry i is a file with metadata of its own, entry dirpos a directory
SplitItems(n, dirpos) ==
    [i \in 1..n |->
        IF i = dirpos
        THEN TreeItem(SplitName(i), GIT_MODE_TREE, GIT_MODE_TREE, <<"ext", i>>, None)
        ELSE TreeItem(SplitName(i), GIT_MODE_FILE, GIT_MODE_FILE, <<"ext", i>>,
                      FileMetadata + i)]

SplitCalls ==
    {[NoCall EXCEPT !.f = "_write_split_tree", !.args = <<SplitItems(n, dirpos), <<s0, s1>>>>] :
        n \in 0..MaxSplitNames, dirpos \in 0..1,
        s0 \in [1..MaxSplitNames -> BOOLEAN], s1 \in [1..HalfUp(MaxSplitNames) -> BOOLEAN]}

\* tree = _write_split_tree(w, dir_meta, items)
write_split_tree_call ==
    /\ call.f = "_write_split_tree"
    /\ ~call.done
    /\ \E tree \in {_write_split_tree(<<>>, DirMetadata, call.args[1], 0, call.args[2])} :
          call' = [call EXCEPT !.ret = <<tree.w, tree.oid>>, !.done = TRUE]
    /\ UNCHANGED <<hs, sd, sv>>

SplitReturned == call.f = "_write_split_tree" /\ call.done

IsSentinel(name) ==
    /\ Len(name) = 1 + Len(dot_bupd)
    /\ SubSeq(name, 2, Len(name)) = dot_bupd
    /\ name[1] \in 48..57

\* the entries of a tree that are neither the .bupm nor a sentinel
OwnEntries(w, oid) ==
    SelectSeq(w[oid[2]].shalist, LAMBDA e : e.name # dot_bupm /\ ~IsSentinel(e.name))

\* the sentinel entries of a tree
SentinelEntries(w, oid) == SelectSeq(w[oid[2]].shalist, LAMBDA e : IsSentinel(e.name))

\* the number of levels of subtrees below a tree: the entries of a tree of
\* the lowest level are those of the directory, which are not in w
RECURSIVE LevelsBelow(_, _)
LevelsBelow(w, oid) ==
    LET own == OwnEntries(w, oid)
    IN IF own = <<>> \/ own[1].oid[1] # "obj" THEN 0
       ELSE 1 + LevelsBelow(w, own[1].oid)

\* the trees that the entries of the given trees name, in order
RECURSIVE Subtrees(_, _, _)
Subtrees(w, oids, i) ==
    IF i > Len(oids) THEN <<>>
    ELSE [k \in 1..Len(OwnEntries(w, oids[i])) |-> OwnEntries(w, oids[i])[k].oid]
         \o Subtrees(w, oids, i + 1)

\* the trees k levels below the tree top, in order
RECURSIVE TreesBelow(_, _, _)
TreesBelow(w, top, k) ==
    IF k = 0 THEN <<top>> ELSE Subtrees(w, TreesBelow(w, top, k - 1), 1)

RECURSIVE CeilLog2(_)
CeilLog2(n) == IF n <= 1 THEN 0 ELSE 1 + CeilLog2(HalfUp(n))

\* C33: _write_split_tree returns a tree for every list of entries and
\* every pattern of split points; on every level below the top every
\* subtree but the last holds at least 2 entries, so that a level has at
\* most half as many trees, rounded up, as it has entries; the number of
\* levels below the top is at most ceil(log2(number of names)); the trees
\* of the lowest level hold the entries of the directory.
C33_SplitTreeDepth ==
    SplitReturned =>
        LET w == call.ret[1]
            top == call.ret[2]
            n == Len(call.args[1])
            d == LevelsBelow(w, top)
        IN /\ top[1] = "obj" /\ w[top[2]].type = "tree"
           /\ d <= CeilLog2(n)
           /\ Len(Subtrees(w, TreesBelow(w, top, d), 1)) = n
           /\ \A k \in 1..d :
                 LET ts == TreesBelow(w, top, k)
                 IN /\ \A i \in 1..(Len(ts) - 1) : Len(OwnEntries(w, ts[i])) >= 2
                    /\ Len(ts) <= HalfUp(Len(Subtrees(w, ts, 1)))

\* a directory of 5 entries or more was written with two levels of
\* subtrees below the top
C33_Witness ==
    /\ SplitReturned
    /\ Len(call.args[1]) >= 5
    /\ LevelsBelow(call.ret[1], call.ret[2]) = 2
    /\ Len(TreesBelow(call.ret[1], call.ret[2], 2)) = 3

\* the trees of all levels below the top
LowerTrees(w, top) ==
    UNION {{TreesBelow(w, top, k)[i] : i \in 1..Len(TreesBelow(w, top, k))} :
              k \in 1..LevelsBelow(w, top)}

\* C34: the top tree that _write_split_tree returns holds exactly one
\* sentinel entry, named '<d>.bupd' and naming an empty blob, when the
\* directory was split into d >= 1 levels of subtrees below the top; the
\* top tree of a directory that fits one tree holds no sentinel; no tree
\* below the top holds a sentinel.
C34_Sentinel ==
    SplitReturned =>
        LET w == call.ret[1]
            top == call.ret[2]
            d == LevelsBelow(w, top)
            s == SentinelEntries(w, top)
        IN /\ d = 0 => s = <<>>
           /\ d >= 1 =>
                 /\ Len(s) = 1
                 /\ s[1].name = <<48 + d>> \o dot_bupd
                 /\ s[1].mode = GIT_MODE_FILE
                 /\ w[s[1].oid[2]] = [type |-> "blob", shalist |-> <<>>, data |-> <<>>]
           /\ \A oid \in LowerTrees(w, top) : SentinelEntries(w, oid) = <<>>

\* a directory was written with two levels of subtrees below the top, and
\* another with one
C34_Witness ==
    /\ SplitReturned
    /\ LevelsBelow(call.ret[1], call.ret[2]) = 2
    /\ Len(SentinelEntries(call.ret[1], call.ret[2])) = 1

\* the metadata records of the .bupm of a tree, <<>> for a tree without one
BupmOf(w, oid) ==
    LET m == SelectSeq(w[oid[2]].shalist, LAMBDA e : e.name = dot_bupm)
    IN IF m = <<>> THEN <<>> ELSE w[m[1].oid[2]].data

\* the metadata of the entries of the directory that are not directories
\* and that the tree holds, in the order of the entries
FileRecords(w, oid, items) ==
    LET files == SelectSeq(items, LAMBDA x :
                     /\ x.mode # GIT_MODE_TREE
                     /\ \E k \in 1..Len(OwnEntries(w, oid)) : OwnEntries(w, oid)[k].oid = x.oid)
    IN [i \in 1..Len(files) |-> files[i].meta]

ECIdle ==
    /\ ecw = EncryptedContainer_w("f", "DATA", write_key("DATA"), "sk", FALSE)
    /\ ecwrites = <<>>
    /\ ecfile = <<>>
    /\ ecread = [i |-> 0, res |-> ReadFail]

RepoIdle ==
    /\ repo = [s \in Sessions |-> ClosedRepo]
    /\ table = Empty
    /\ s3 = Empty
    /\ cachedir = Empty
    /\ next_fakesha = 1
    /\ separatemeta = FALSE
    /\ max_pack_size = DefaultPackSize
    /\ opened = 0
    /\ readkey = "readkey"

StorageIdle == s3w = [k \in Writers |-> NoWriter] /\ ut = NoUpload /\ cr = NoCacheReader

TreeIdle == hs = NoSplit /\ sd = NoStack /\ sv = NoSave /\ call = NoCall

ECInit ==
    /\ TreeIdle
    /\ RepoIdle
    /\ StorageIdle
    /\ \E kind \in {"DATA", "CONFIG"} :
          ecw = EncryptedContainer_w("f", kind, write_key(kind), "sk", FALSE)
    /\ ecwrites = <<>>
    /\ ecfile = <<>>
    /\ ecread = [i |-> 0, res |-> ReadFail]

ECNext == (ECWrite \/ ECFinish \/ ECRead) /\ UNCHANGED <<repovars, stvars, treevars>>

ContainerSpec == ECInit /\ [][ECNext]_vars

RepoInit ==
    /\ TreeIdle
    /\ ECIdle
    /\ StorageIdle
    /\ repo = [s \in Sessions |-> ClosedRepo]
    /\ table = Empty
    /\ s3 = Empty
    /\ cachedir = Empty
    /\ next_fakesha = 1
    /\ separatemeta \in BOOLEAN
    /\ max_pack_size \in {SmallPackSize, DefaultPackSize}
    /\ opened = 0
    /\ readkey = "readkey"

RepoNext ==
    /\ UNCHANGED <<ecvars, stvars, treevars>>
    /\ \/ Open(1)
       \/ write_data(1)
       \/ write_symlink(1)
       \/ write_bupm(1)
       \/ write_tree(1)
       \/ write_commit(1)
       \/ just_write(1)
       \/ FinishWriting(1)
       \/ AbortWriting(1)
       \/ update_ref(1)
       \/ UpdateRefRead(1)
       \/ UpdateRefWriter(1)
       \/ UpdateRefClose(1)
       \/ Close(1)

Spec == RepoInit /\ [][RepoNext]_vars

\* Two sessions race on one ref: both have called update_ref(refname, new, old)
\* with the same refname, with old the value the ref has and with different
\* new values, and both have passed finish_writing with nothing to finish.
\* The repository has no refs file yet, or one without the ref, or one in
\* which the ref is the commit c0 of an earlier save.
RefRaceInit ==
    /\ TreeIdle
    /\ ECIdle
    /\ StorageIdle
    /\ s3 = Empty
    /\ cachedir = Empty
    /\ next_fakesha = 1
    /\ separatemeta = FALSE
    /\ max_pack_size = DefaultPackSize
    /\ opened = Cardinality(Sessions)
    /\ readkey = "readkey"
    /\ \E refs \in {Empty, Put(Empty, "other", hexlify("c0")),
                      Put(Empty, "main", hexlify("c0"))} :
          table = IF refs = Empty THEN Empty
                  ELSE Put(Empty, refsname, ConfigItem(0, RefsFile(refs)))
    /\ \E new \in [Sessions -> Commits] :
          /\ new[1] # new[2]
          /\ repo = [s \in Sessions |->
                       [ClosedRepo EXCEPT !.storage = TRUE,
                                          !.pc = "ur_read",
                                          !.frame = [NoFrame EXCEPT
                                                        !.refname = "main",
                                                        !.newval = new[s],
                                                        !.oldval = StoredRef(table, "main")]]]

RefRaceNext ==
    /\ UNCHANGED <<ecvars, stvars, treevars>>
    /\ \E s \in Sessions : \/ UpdateRefRead(s)
                            \/ UpdateRefWriter(s)
                            \/ UpdateRefClose(s)

RefRaceSpec == RefRaceInit /\ [][RefRaceNext]_vars

\* The storage with its writers, no repository session open.
StorageInit ==
    /\ TreeIdle
    /\ ECIdle
    /\ RepoIdle
    /\ StorageIdle

StorageNext ==
    /\ UNCHANGED <<ecvars, treevars, ut, cr, repo, cachedir, next_fakesha, separatemeta, max_pack_size, readkey,
                   opened>>
    /\ \E k \in Writers : \/ S3WCreate(k)
                          \/ S3WWrite(k)
                          \/ S3WClose(k)
                          \/ S3WClosePut(k)
                          \/ S3WAbort(k)

StorageSpec == StorageInit /\ [][StorageNext]_vars

\* A repository is opened on any cache directory and any storage: each pack
\* id has no local idx, the idx of the pack or another idx file of that
\* name, and no remote idx, an uploaded one or one whose upload is unfinished.
SyncIds == 1..MaxPacks

SyncIdx(n) == {<<"b1", 3, 92 + n>>}

OtherIdx(n) == {<<"c2", 1, 92>>, <<"b1", 3, 139>>}

EncIdx(n) ==
    write(EncryptedContainer_w(IdxName(n), "IDX", "repokey", IdxName(n), FALSE),
          0, None, [id |-> SyncIdx(n), zlen |-> 8 + 28 * Cardinality(SyncIdx(n))]).c

SyncInit ==
    /\ TreeIdle
    /\ ECIdle
    /\ StorageIdle
    /\ repo = [s \in Sessions |-> ClosedRepo]
    /\ next_fakesha = 1
    /\ separatemeta = FALSE
    /\ max_pack_size = DefaultPackSize
    /\ opened = 0
    /\ readkey = "readkey"
    /\ \E local \in [SyncIds -> {"none", "idx", "other"}],
          remote \in [SyncIds -> {"none", "uploaded", "tentative"}] :
          /\ cachedir = [n \in {m \in SyncIds : local[m] # "none"} |->
                            IF local[n] = "idx" THEN SyncIdx(n) ELSE OtherIdx(n)]
          /\ table = [nm \in {IdxName(n) : n \in {m \in SyncIds : remote[m] # "none"}} |->
                         S3Item(remote[nm[2]] = "tentative", EncIdx(nm[2]).offset)]
          /\ s3 = [nm \in {IdxName(n) : n \in {m \in SyncIds : remote[m] = "uploaded"}} |->
                      EncIdx(nm[2]).out]

SyncNext ==
    /\ UNCHANGED <<ecvars, stvars, treevars>>
    /\ \/ Open(1)
       \/ Open(2)
       \/ Close(1)
       \/ Close(2)

SyncSpec == SyncInit /\ [][SyncNext]_vars


\* One UploadThread, its foreground thread and its uploader thread.
\* C36: in every interleaving of the foreground thread and the uploader
\* thread, a failing background write included, every call of put() and of
\* finish() returns or raises in the end: the foreground never waits for
\* ever on the queue.
C36_EveryCallReturns == (ut.fpc # "idle") ~> (ut.fpc = "idle")

\* C36 for the calls made while no background write has failed
C36_CallsReturnWithoutFailure == (ut.fpc # "idle" /\ ~ut.failed) ~> (ut.fpc = "idle" \/ ut.failed)

UploadInit == ECIdle /\ RepoIdle /\ StorageIdle /\ TreeIdle

UploadNext ==
    /\ UNCHANGED <<ecvars, repovars, s3w, cr, treevars>>
    /\ \/ UploadThread_put_call
       \/ UploadThread_finish_call
       \/ _join_queue_check_join
       \/ _join_queue_check_exc
       \/ _join_queue_check_reraise
       \/ UploadThread_put_queue
       \/ UploadThread_finish_join
       \/ UploadThread_run_get
       \/ UploadThread_run_write
       \/ UploadThread_run_task_done
       \/ UploadThread_run_except

UploadSpec == UploadInit /\ [][UploadNext]_vars

\* both threads are scheduled: a step of the foreground call or of the
\* uploader that can be taken is taken in the end; whether the client calls
\* put() or finish() again is up to the client
UploadFairness ==
    /\ WF_ut(_join_queue_check_join)
    /\ WF_ut(_join_queue_check_exc)
    /\ WF_ut(_join_queue_check_reraise)
    /\ WF_ut(UploadThread_put_queue)
    /\ WF_ut(UploadThread_finish_join)
    /\ WF_ut(UploadThread_run_get)
    /\ WF_ut(UploadThread_run_write)
    /\ WF_ut(UploadThread_run_task_done)
    /\ WF_ut(UploadThread_run_except)

UploadLiveSpec == UploadInit /\ [][UploadNext]_vars /\ UploadFairness

StreamInit ==
    /\ ECIdle /\ RepoIdle /\ TreeIdle
    /\ ut = NoUpload
    /\ cr = NoCacheReader
    /\ \E t \in Thresholds :
          s3w = [k \in Writers |-> IF k = 1 THEN [NoWriter EXCEPT !.threshold = t]
                                   ELSE NoWriter]

StreamNext ==
    /\ UNCHANGED <<ecvars, treevars, cr, repo, cachedir, next_fakesha, separatemeta,
                   max_pack_size, readkey, opened>>
    /\ \/ StreamCreate
       \/ StreamWrite
       \/ StreamPut
       \/ StreamClose
       \/ StreamFinish
       \/ StreamComplete
       \/ (UNCHANGED <<s3w, table, s3>> /\ _join_queue_check_join)
       \/ (UNCHANGED <<s3w, table, s3>> /\ _join_queue_check_exc)
       \/ (UNCHANGED <<s3w, table, s3>> /\ _join_queue_check_reraise)
       \/ (UNCHANGED <<s3w, table, s3>> /\ UploadThread_put_queue)
       \/ (UNCHANGED <<s3w, table, s3>> /\ UploadThread_finish_join)
       \/ (UNCHANGED <<s3w, table, s3>> /\ UploadThread_run_get)
       \/ (UNCHANGED <<s3w, table, s3>> /\ UploadThread_run_write)
       \/ (UNCHANGED <<s3w, table, s3>> /\ UploadThread_run_task_done)
       \/ (UNCHANGED <<s3w, table, s3>> /\ UploadThread_run_except)

StreamSpec == StreamInit /\ [][StreamNext]_vars

CacheInit ==
    /\ ECIdle /\ RepoIdle /\ TreeIdle
    /\ s3w = [k \in Writers |-> NoWriter] /\ ut = NoUpload
    /\ \E fsize \in 1..MaxFileSize : cr = [NoCacheReader EXCEPT !.size = fsize]

CacheNext ==
    /\ UNCHANGED <<ecvars, repovars, s3w, ut, treevars>>
    /\ \/ CacheOpen
       \/ CacheSeek
       \/ CacheRead
       \/ CacheClose

CacheSpec == CacheInit /\ [][CacheNext]_vars

\* A repository whose configuration has repokey and writekey and no readkey.
AppendOnlyInit ==
    /\ TreeIdle
    /\ ECIdle
    /\ StorageIdle
    /\ repo = [s \in Sessions |-> ClosedRepo]
    /\ table = Empty
    /\ s3 = Empty
    /\ cachedir = Empty
    /\ next_fakesha = 1
    /\ separatemeta \in BOOLEAN
    /\ max_pack_size = DefaultPackSize
    /\ opened = 0
    /\ readkey = NoKey

AppendOnlyNext ==
    /\ UNCHANGED <<ecvars, stvars, treevars>>
    /\ \/ Open(1)
       \/ write_data(1)
       \/ write_tree(1)
       \/ write_commit(1)
       \/ FinishWriting(1)
       \/ update_ref(1)
       \/ UpdateRefRead(1)
       \/ UpdateRefWriter(1)
       \/ UpdateRefClose(1)
       \/ Cat(1)
       \/ Close(1)

AppendOnlySpec == AppendOnlyInit /\ [][AppendOnlyNext]_vars

\* A session writes, moves the branch and reads objects by id and by name.
CatInit ==
    /\ TreeIdle
    /\ ECIdle
    /\ StorageIdle
    /\ repo = [s \in Sessions |-> ClosedRepo]
    /\ table = Empty
    /\ s3 = Empty
    /\ cachedir = Empty
    /\ next_fakesha = 1
    /\ separatemeta \in BOOLEAN
    /\ max_pack_size = DefaultPackSize
    /\ opened = 0
    /\ readkey = "readkey"

CatNext ==
    /\ UNCHANGED <<ecvars, stvars, treevars>>
    /\ \/ Open(1)
       \/ write_data(1)
       \/ write_tree(1)
       \/ write_commit(1)
       \/ FinishWriting(1)
       \/ update_ref(1)
       \/ UpdateRefRead(1)
       \/ UpdateRefWriter(1)
       \/ UpdateRefClose(1)
       \/ Cat(1)
       \/ CatRef(1)
       \/ Close(1)

CatSpec == CatInit /\ [][CatNext]_vars

\* one session that updates and reads the branch again and again, on a
\* repository without refs file or with one that holds the branch
RefSessionInit ==
    /\ TreeIdle
    /\ ECIdle
    /\ StorageIdle
    /\ repo = [s \in Sessions |-> ClosedRepo]
    /\ s3 = Empty
    /\ cachedir = Empty
    /\ next_fakesha = 1
    /\ separatemeta \in BOOLEAN
    /\ max_pack_size = DefaultPackSize
    /\ opened = 0
    /\ readkey = "readkey"
    /\ \E refs \in {Empty, Put(Empty, "main", hexlify("c0"))} :
          table = IF refs = Empty THEN Empty
                  ELSE Put(Empty, refsname, ConfigItem(0, RefsFile(refs)))

RefSessionNext ==
    /\ UNCHANGED <<ecvars, stvars, treevars>>
    /\ \/ Open(1)
       \/ UpdateRefSuccessive(1)
       \/ UpdateRefRead(1)
       \/ UpdateRefWriter(1)
       \/ UpdateRefClose(1)
       \/ ReadRef(1)
       \/ Close(1)

RefSessionSpec == RefSessionInit /\ [][RefSessionNext]_vars

\* A session reads objects while the stored packs are tampered with.
TamperInit ==
    /\ TreeIdle
    /\ ECIdle
    /\ StorageIdle
    /\ separatemeta = FALSE
    /\ max_pack_size = DefaultPackSize
    /\ readkey = "readkey"
    /\ opened = 1
    /\ repo = [s \in Sessions |-> IF s = 1 THEN TamperWorld.r ELSE ClosedRepo]
    /\ table = TamperWorld.table
    /\ s3 = TamperWorld.s3
    /\ cachedir = TamperWorld.cachedir
    /\ next_fakesha = 3

TamperNext ==
    /\ UNCHANGED <<ecvars, stvars, treevars>>
    /\ \/ FlipBoxBit
       \/ FlipSizeBit
       \/ CopyRecord
       \/ MoveRecord
       \/ Cat(1)

TamperSpec == TamperInit /\ [][TamperNext]_vars

\* one file is split: any fanout argument, any chunks and levels
HashsplitInit ==
    /\ ECIdle
    /\ RepoIdle
    /\ StorageIdle
    /\ sd = NoStack
    /\ sv = NoSave
    /\ call = NoCall
    /\ \E fanout \in {NoFanout, 0, DEFAULT_FANOUT} : hs = [NoSplit EXCEPT !.fanout = fanout]

HashsplitNext ==
    /\ UNCHANGED <<ecvars, repovars, stvars>>
    /\ \/ split_to_shalist_call
       \/ split_to_shalist_chunk
       \/ split_to_shalist_return

HashsplitSpec == HashsplitInit /\ [][HashsplitNext]_vars

\* the frames of one save: directories are pushed, files appended, frames
\* popped
StackInit ==
    /\ ECIdle
    /\ RepoIdle
    /\ StorageIdle
    /\ hs = NoSplit
    /\ sv = NoSave
    /\ call = NoCall
    /\ \E use_treesplit \in BOOLEAN : sd = [NoStack EXCEPT !.use_treesplit = use_treesplit]

StackNext ==
    /\ UNCHANGED <<ecvars, repovars, stvars>>
    /\ \/ push
       \/ append
       \/ pop

StackSpec == StackInit /\ [][StackNext]_vars

\* save is run on an index, once and again: any paths are given to it and
\* any read may fail
SaveInit ==
    /\ ECIdle
    /\ RepoIdle
    /\ StorageIdle
    /\ hs = NoSplit
    /\ \E use_treesplit \in BOOLEAN : sd = [NoStack EXCEPT !.use_treesplit = use_treesplit]
    /\ call = NoCall
    /\ \E extra \in SUBSET SavePaths \ {{}}, provides \in BOOLEAN :
          sv = [NoSave EXCEPT !.phase = "loop", !.run = 1, !.extra = extra,
                              !.provides = provides]

SaveNext ==
    /\ UNCHANGED <<ecvars, repovars, stvars>>
    /\ \/ save_entry
       \/ save_finish
       \/ save_again

SaveSpec == SaveInit /\ [][SaveNext]_vars

\* _tree_names_abbreviate is called on a list of distinct names
SplitTreeInit ==
    /\ ECIdle
    /\ RepoIdle
    /\ StorageIdle
    /\ hs = NoSplit
    /\ sd = NoStack
    /\ sv = NoSave
    /\ call \in SplitCalls

SplitTreeNext ==
    /\ UNCHANGED <<ecvars, repovars, stvars>>
    /\ write_split_tree_call

SplitTreeSpec == SplitTreeInit /\ [][SplitTreeNext]_vars

AbbrevInit ==
    /\ ECIdle
    /\ RepoIdle
    /\ StorageIdle
    /\ hs = NoSplit
    /\ sd = NoStack
    /\ sv = NoSave
    /\ call = [NoCall EXCEPT !.f = "_tree_names_abbreviate"]

AbbrevNext ==
    /\ UNCHANGED <<ecvars, repovars, stvars>>
    /\ \/ abbreviate_name
       \/ abbreviate_call

AbbrevSpec == AbbrevInit /\ [][AbbrevNext]_vars

====
